---- MODULE Spec2Model ----
(***************************************************************************)
(* A model of QJniObject (src/corelib/kernel/qjniobject.cpp): the class,   *)
(* method-ID and field-ID caches with their read/write locks, the          *)
(* exception funnel, and the lifetime of the global references a wrapper   *)
(* holds.                                                                  *)
(*                                                                         *)
(* Strings are sequences of one-character strings, so that the key         *)
(* formatting (keyBase) and the class-name conversion                      *)
(* (toBinaryEncClassName) are computed as the code computes them.          *)
(*                                                                         *)
(* SpecCache is the concurrent view: threads run the lookup functions step *)
(* by step, one step per lock acquisition and per locked section.          *)
(* SpecJni is the view of one thread of the application: each wrapper      *)
(* operation (constructor, copy, assignment, destructor, call, field       *)
(* access) is one step, and the Java side chooses whether the JNI call of  *)
(* the operation throws and what it returns.                               *)
(***************************************************************************)
EXTENDS Integers, Sequences, FiniteSets, Bags, TLC

\* ------------------------------------------------------------------ bounds

\* Lookup operations started, over all threads, in one behaviour of SpecCache.
MaxOps == 2

\* Wrapper operations other than copies and destructions in one behaviour of
\* SpecJni.
MaxCalls == 2

\* The frames a platform OpenGL context swaps.
MaxFrames == 9

\* ------------------------------------------------------------ the Java side

Threads == {"t1", "t2"}
NoThread == "none"

\* A class named the JNI way, the same class named the Java way, a class that
\* does not exist.
ClsSlash == <<"a", "/", "B">>
ClsDot == <<"a", ".", "B">>
ClsNone == <<"N">>
UserClassNames == {ClsSlash, ClsDot, ClsNone}

NameM == <<"m">>
NameS == <<"s">>
NameInit == <<"<", "i", "n", "i", "t", ">">>
SigI == <<"I">>
SigCtor == <<"(", ")", "V">>
MemberNames == {NameM, NameS}

\* A second class, a.Bm, and a longer member name, ms: a.B has a static member
\* ms and a.Bm a static member s.
ClsDotM == <<"a", ".", "B", "m">>
NameMS == <<"m", "s">>

\* java.lang.String, and Object.toString() with its signature.
ClsString == <<"S">>
NameToString == <<"t", "o", "S", "t", "r", "i", "n", "g">>
SigToString ==
    <<"(", ")", "L", "j", "a", "v", "a", "/", "l", "a", "n", "g", "/", "S", "t", "r", "i", "n", "g", ";">>

\* The members the Java classes have: an instance member m and a static member
\* s (each both a method and a field of that name), and a default constructor.
JavaClasses == {ClsDot}
JavaMembers ==
    { [cls |-> ClsDot, name |-> NameM, sig |-> SigI, static |-> FALSE],
      [cls |-> ClsDot, name |-> NameS, sig |-> SigI, static |-> TRUE],
      [cls |-> ClsDot, name |-> NameInit, sig |-> SigCtor, static |-> FALSE],
      [cls |-> ClsDot, name |-> NameToString, sig |-> SigToString,
       static |-> FALSE],
      [cls |-> ClsString, name |-> NameToString, sig |-> SigToString,
       static |-> FALSE],
      [cls |-> ClsDot, name |-> NameMS, sig |-> SigI, static |-> TRUE],
      [cls |-> ClsDotM, name |-> NameS, sig |-> SigI, static |-> TRUE] }

\* The QStrings the application converts: sequences of UTF-16 code units.
Strings == {<<>>, <<"h", "i">>}

\* The null reference, the null jmethodID/jfieldID, the null class name.
NullRef == 0
NullID == [cls |-> <<>>, name |-> <<>>, sig |-> <<>>, static |-> FALSE]
NullName == <<>>

\* ----------------------------------------------------------------- helpers

keyBase(a1, a2, a3) == a1 \o a2 \o <<":">> \o a3

toBinaryEncClassNameAsGiven(className) == className
toBinaryEncClassName(className) ==
    [i \in 1..Len(className) |-> IF className[i] = "/" THEN "." ELSE className[i]]

\* QByteArray::isEmpty() and isNull(): the only class name without characters
\* that reaches the caches is the default-constructed (null) m_className.
isEmpty(className) == Len(className) = 0
isNull(className) == Len(className) = 0


\* QHash::constFind(key) != constEnd(), QHash::value, QHash::insert (which
\* replaces the value of a key already present).
Contains(hash, key) == key \in DOMAIN hash
Insert(hash, key, value) ==
    [k \in DOMAIN hash \cup {key} |-> IF k = key THEN value ELSE hash[k]]

\* ------------------------------------------------------------------- state

VARIABLES
    cachedClasses,        \* QHash<QString, jclass>: binary class name -> global ref
    cachedClassesLock,    \* QReadWriteLock: [readers, writer]
    cachedMethodID,       \* QHash<QString, jmethodID>
    cachedMethodIDLock,
    cachedFieldID,        \* QHash<QString, jfieldID>
    cachedFieldIDLock,
    classLoaderSet,       \* QtAndroidPrivate::classLoader() is non-null
    globalRefs,           \* the JVM's global references: id -> [obj, deleted]
    excPending,           \* per thread (JNIEnv): a Java exception is pending
    pc,                   \* per thread: position in the lookup it runs
    op,                   \* per thread: the operation it runs and its arguments
    clazz,                \* per thread: the local variable clazz
    retID,                \* per thread: the jmethodID/jfieldID being returned
    resolved,             \* history of the stepwise lookups: bag of
                          \* Get(Static)(Method|Field)ID calls made
    loaderCalls,          \* history of the stepwise lookups: bag of class names
                          \* ClassLoader.loadClass was called for
    nOps,                 \* history: operations started
    d,                    \* per wrapper: the QJniObjectPrivate it shares (0: no wrapper)
    privs,                \* the QJniObjectPrivate instances ever created
    localRefs,            \* the thread's local references: id -> [obj, deleted]
    unsafeCall,           \* history: a JNI call was made with an exception pending
    last,                 \* history: the last wrapper operation and its outcome
    platformContext       \* a QPlatformOpenGLContext of a backend: d_ptr's context
                          \* and what the backend keeps (current, made, frames)

cacheVars == <<cachedClasses, cachedClassesLock, cachedMethodID, cachedMethodIDLock,
               cachedFieldID, cachedFieldIDLock>>
threadVars == <<pc, op, clazz, retID>>
histVars == <<resolved, loaderCalls, nOps>>
objVars == <<d, privs, localRefs, unsafeCall, last>>
glVars == <<platformContext>>
vars == <<cacheVars, classLoaderSet, globalRefs, excPending, threadVars, histVars,
          objVars, glVars>>

Unlocked == [readers |-> {}, writer |-> NoThread]

\* The QOpenGLContext a platform context belongs to, the surfaces of the
\* application, and a platform context as constructed: its d_ptr with the
\* context set for it, not current on a surface, no frame swapped.
NoContext == "none"
Contexts == {NoContext, "context"}
NoSurface == "none"
Surfaces == {"window", "offscreen"}
QPlatformOpenGLContext(context) ==
    [context |-> context, current |-> NoSurface, made |-> FALSE, frames |-> 0]

\* The QJniObject variables of the application, and "no QJniObjectPrivate".
Wrappers == {"w1", "w2"}
NoPriv == 0

NoLast == [funnel |-> "none", called |-> FALSE, raised |-> FALSE,
           returned |-> 0, result |-> 0, valid |-> FALSE, shared |-> FALSE,
           found |-> FALSE, w |-> "none", v |-> "none", ref |-> NullRef,
           text |-> NullName]

NoOp == [api |-> "none", stage |-> "none", cls |-> NullName, bin |-> NullName,
         env |-> FALSE, member |-> "none", className |-> NullName,
         name |-> NullName, sig |-> NullName, static |-> FALSE]

\* The class reference the application holds itself (a jclass it passes to the
\* operations taking one, and the class of the objects it wraps by reference).
AppClassRef == 1
AppObjectRef == 2

\* The local reference the application's thread holds, to the same object.
AppLocalRef == 1

Init ==
    /\ cachedClasses = <<>>
    /\ cachedClassesLock = Unlocked
    /\ cachedMethodID = <<>>
    /\ cachedMethodIDLock = Unlocked
    /\ cachedFieldID = <<>>
    /\ cachedFieldIDLock = Unlocked
    /\ classLoaderSet = FALSE
    /\ globalRefs = << [obj |-> <<"class", ClsDot>>, deleted |-> 0],
                      [obj |-> <<"object", ClsDot, <<"app">>>>, deleted |-> 0] >>
    /\ excPending = [t \in Threads |-> FALSE]
    /\ pc = [t \in Threads |-> "idle"]
    /\ op = [t \in Threads |-> NoOp]
    /\ clazz = [t \in Threads |-> NullRef]
    /\ retID = [t \in Threads |-> NullID]
    /\ resolved = EmptyBag
    /\ loaderCalls = EmptyBag
    /\ nOps = 0
    /\ d = [w \in Wrappers |-> NoPriv]
    /\ privs = <<>>
    /\ localRefs = << [obj |-> <<"object", ClsDot, <<"app">>>>, deleted |-> 0] >>
    /\ unsafeCall = FALSE
    /\ last = NoLast
    /\ platformContext = QPlatformOpenGLContext(NoContext)

\* --------------------------------------------------------------- JNI calls

\* NewGlobalRef(obj): a new global reference to the object a reference names.
NewGlobalRef(refs, obj) == Append(refs, [obj |-> obj, deleted |-> 0])

\* The Java class a class reference names.
JavaClassOf(ref) == globalRefs[ref].obj[2]

\* GetMethodID / GetStaticMethodID / GetFieldID / GetStaticFieldID: the ID of the
\* member, or NULL with a NoSuchMethodError / NoSuchFieldError pending.
JniGetID(cls, name, sig, isStatic) ==
    LET m == [cls |-> cls, name |-> name, sig |-> sig, static |-> isStatic]
    IN  IF m \in JavaMembers THEN [id |-> m, raised |-> FALSE]
                             ELSE [id |-> NullID, raised |-> TRUE]

\* getMethodID and getFieldID: the JNI lookup, then checkAndClearExceptions, which
\* answers true for any pending exception, whichever call raised it.
getMethodID(exc, cls, name, sig, isStatic) ==
    LET r == JniGetID(cls, name, sig, isStatic)
    IN  IF exc \/ r.raised THEN NullID ELSE r.id

getFieldID(exc, cls, name, sig, isStatic) ==
    LET r == JniGetID(cls, name, sig, isStatic)
    IN  IF exc \/ r.raised THEN NullID ELSE r.id


\* ------------------------------------------------------------------- locks

\* QReadLocker / QWriteLocker on a QReadWriteLock: a reader waits for the writer
\* to leave, a writer waits for the lock to be free.
CanLockForRead(lock) == lock.writer = NoThread
CanLockForWriteAlways(lock) == TRUE
CanLockForWrite(lock) == lock.writer = NoThread /\ lock.readers = {}
LockedForRead(lock, t) == [lock EXCEPT !.readers = @ \cup {t}]
LockedForWrite(lock, t) == [lock EXCEPT !.writer = t]
UnlockedByNever(lock, t) == lock
UnlockedBy(lock, t) ==
    [readers |-> lock.readers \ {t},
     writer |-> IF lock.writer = t THEN NoThread ELSE lock.writer]

\* "did we lose the race?": the second look, under the write lock.
LostRaceNever(hash, key) == FALSE
LostRace(hash, key) == Contains(hash, key)

\* "return it.value()" of the thread that lost the race.
StoredNull(hash, key) == NullRef
Stored(hash, key) == hash[key]

\* ------------------------------------------- operations a thread may start

\* Every operation is a class stage (none, loadClass or findClass) followed by a
\* member stage (none, getCachedMethodID or getCachedFieldID). An operation record
\* holds what the code still reads of its arguments: bin is the class-cache key,
\* cls the name findClass hands to FindClass, className the name the member is
\* keyed under.

\* isClassAvailable(className), and the class lookup of a constructor by name.
OpLoadClass(cls) ==
    [NoOp EXCEPT !.api = "loadClass", !.stage = "lc", !.cls = cls,
                 !.bin = toBinaryEncClassName(cls)]

\* QtAndroidPrivate::findClass(className, env).
OpFindClass(cls, env) ==
    [NoOp EXCEPT !.api = "findClass", !.stage = "fc", !.cls = cls,
                 !.bin = toBinaryEncClassName(cls), !.env = env]

\* callStaticMethod and its kin, getStaticField, getStaticObjectField: the member
\* is looked up under toBinaryEncClassName(className).
OpStatic(api, member, cls, name) ==
    [NoOp EXCEPT !.api = api, !.stage = "lc", !.cls = cls,
                 !.bin = toBinaryEncClassName(cls), !.member = member,
                 !.className = toBinaryEncClassName(cls),
                 !.name = name, !.sig = SigI, !.static = TRUE]

\* setStaticField: the member is looked up under className as given.
OpSetStatic(cls, name) ==
    [OpStatic("setStaticField", "field", cls, name) EXCEPT !.className = cls]

\* callMethod, getField, setField and their kin on a wrapper: the member is
\* looked up under the wrapper's m_className, in its m_jclass.
OpInstance(api, member, m_className, name) ==
    [NoOp EXCEPT !.api = api, !.member = member, !.className = m_className,
                 !.name = name, !.sig = SigI]

StaticApis == {<<"callStaticMethod", "method">>, <<"getStaticField", "field">>}
InstanceApis == {<<"callMethod", "method">>, <<"getField", "field">>}

\* Whether the lookup goes past the caches: className.isEmpty() in
\* getCachedMethodID, className.isNull() in getCachedFieldID.
BypassCache(o) ==
    IF o.member = "method" THEN isEmpty(o.className) ELSE isNull(o.className)

\* Where getCachedMethodID / getCachedFieldID starts: the test of className.
MemberStartCached(o) == "mem_rlock"
MemberStart(o) == IF BypassCache(o) THEN "mem_direct" ELSE "mem_rlock"

\* A thread that is not inside an operation starts the operation o.
Begin(t, o, startPc, cl) ==
    /\ pc[t] \in {"idle", "done"}
    /\ nOps < MaxOps
    /\ nOps' = nOps + 1
    /\ op' = [op EXCEPT ![t] = o]
    /\ pc' = [pc EXCEPT ![t] = startPc]
    /\ clazz' = [clazz EXCEPT ![t] = cl]
    /\ retID' = [retID EXCEPT ![t] = NullID]
    /\ UNCHANGED <<cacheVars, classLoaderSet, globalRefs, excPending,
                   resolved, loaderCalls>>
    /\ UNCHANGED <<objVars, glVars>>

StartLoadClass(t) ==
    \E cls \in UserClassNames : Begin(t, OpLoadClass(cls), "gcc_lock", NullRef)

StartFindClass(t) ==
    \E cls \in UserClassNames, env \in BOOLEAN :
        Begin(t, OpFindClass(cls, env), "gcc_lock", NullRef)

StartStatic(t) ==
    \E a \in StaticApis, cls \in UserClassNames, name \in MemberNames :
        Begin(t, OpStatic(a[1], a[2], cls, name), "gcc_lock", NullRef)

StartSetStatic(t) ==
    \E cls \in UserClassNames, name \in MemberNames :
        Begin(t, OpSetStatic(cls, name), "gcc_lock", NullRef)

\* An instance operation on a wrapper constructed by class name: the constructor
\* has put the class in the cache, and m_jclass is the cached handle.
StartInstanceByName(t) ==
    \E a \in InstanceApis, cls \in UserClassNames, name \in MemberNames :
        LET bin == toBinaryEncClassName(cls)
        IN  /\ Contains(cachedClasses, bin)
            /\ cachedClasses[bin] # NullRef
            /\ Begin(t, OpInstance(a[1], a[2], bin, name),
                     MemberStart(OpInstance(a[1], a[2], bin, name)),
                     cachedClasses[bin])

\* An instance operation on a wrapper constructed from an object reference (or
\* re-assigned): m_className is null and m_jclass names the object's class.
StartInstanceByRef(t) ==
    \E a \in InstanceApis, name \in MemberNames :
        Begin(t, OpInstance(a[1], a[2], NullName, name),
              MemberStart(OpInstance(a[1], a[2], NullName, name)), AppClassRef)

\* A static operation given a class handle, callStaticMethod(jclass, ...) or
\* getStaticField(jclass, ...): it calls getMethodID / getFieldID itself.
OpStaticByClass(api, member, name) ==
    [NoOp EXCEPT !.api = api, !.member = member, !.name = name, !.sig = SigI,
                 !.static = TRUE]

StartStaticByClass(t) ==
    \E a \in StaticApis, name \in MemberNames :
        Begin(t, OpStaticByClass(a[1], a[2], name), "mem_direct", AppClassRef)

\* QtAndroidPrivate::classLoader() is set once, when the library is loaded.
SetClassLoader ==
    /\ ~classLoaderSet
    /\ classLoaderSet' = TRUE
    /\ UNCHANGED <<cacheVars, globalRefs, excPending, threadVars, histVars>>
    /\ UNCHANGED <<objVars, glVars>>


\* ------------------------------------------------- the class cache, stepwise

\* loadClass (or findClass) hands clazz to its caller: an operation with a member
\* stage goes on to it only with a class ("if (clazz)", "if (!clazz) return").
ReturnClass(t, ref) ==
    /\ clazz' = [clazz EXCEPT ![t] = ref]
    /\ pc' = [pc EXCEPT ![t] = IF op[t].member = "none" \/ ref = NullRef
                                  THEN "done" ELSE MemberStart(op[t])]

\* getCachedClass: QReadLocker locker(cachedClassesLock).
GetCachedClassLock(t) ==
    /\ pc[t] = "gcc_lock"
    /\ CanLockForRead(cachedClassesLock)
    /\ cachedClassesLock' = LockedForRead(cachedClassesLock, t)
    /\ pc' = [pc EXCEPT ![t] = "gcc_find"]
    /\ UNCHANGED <<cachedClasses, cachedMethodID, cachedMethodIDLock, cachedFieldID,
                   cachedFieldIDLock, classLoaderSet, globalRefs, excPending,
                   op, clazz, retID, histVars>>
    /\ UNCHANGED <<objVars, glVars>>

\* getCachedClass: constFind and the locker's release; then, in the caller,
\* "if (clazz || isCached) return clazz" and what follows a miss up to the next
\* lock: in loadClass the test of classLoader.isValid(), in findClass the test of
\* env, with loadClass(classDotEnc, QJniEnvironment(), true) when there is none.
GetCachedClassFind(t) ==
    /\ pc[t] = "gcc_find"
    /\ cachedClassesLock' = UnlockedBy(cachedClassesLock, t)
    /\ IF Contains(cachedClasses, op[t].bin)
         THEN ReturnClass(t, cachedClasses[op[t].bin]) /\ UNCHANGED op
         ELSE IF op[t].stage = "lc"
         THEN IF classLoaderSet
                THEN /\ pc' = [pc EXCEPT ![t] = "lc_wlock"]
                     /\ UNCHANGED <<clazz, op>>
                ELSE /\ ReturnClass(t, NullRef)
                     /\ op' = [op EXCEPT ![t].stage = "lc_noloader"]
         ELSE IF op[t].env
         THEN /\ pc' = [pc EXCEPT ![t] = "fc_wlock"]
              /\ UNCHANGED <<clazz, op>>
         ELSE /\ pc' = [pc EXCEPT ![t] = "gcc_lock"]
              /\ op' = [op EXCEPT ![t].stage = "lc"]
              /\ UNCHANGED clazz
    /\ UNCHANGED <<cachedClasses, cachedMethodID, cachedMethodIDLock, cachedFieldID,
                   cachedFieldIDLock, classLoaderSet, globalRefs, excPending,
                   retID, histVars>>
    /\ UNCHANGED <<objVars, glVars>>

\* loadClass: QWriteLocker locker(cachedClassesLock), then "did we lose the race?"
\* with the locker's release on return.
LoadClassLock(t) ==
    /\ pc[t] = "lc_wlock"
    /\ CanLockForWrite(cachedClassesLock)
    /\ IF LostRace(cachedClasses, op[t].bin)
         THEN /\ ReturnClass(t, Stored(cachedClasses, op[t].bin))
              /\ UNCHANGED cachedClassesLock
         ELSE /\ pc' = [pc EXCEPT ![t] = "lc_load"]
              /\ cachedClassesLock' = LockedForWrite(cachedClassesLock, t)
              /\ UNCHANGED clazz
    /\ UNCHANGED <<cachedClasses, cachedMethodID, cachedMethodIDLock, cachedFieldID,
                   cachedFieldIDLock, classLoaderSet, globalRefs, excPending,
                   op, retID, histVars>>
    /\ UNCHANGED <<objVars, glVars>>

\* ClassLoader.loadClass(name): the class object, or null with a
\* ClassNotFoundException pending.
JniLoadClass(bin) == bin \in JavaClasses

\* What loadClass puts in the cache: the handle it got, null included.
loadClassInsertFound(hash, key, ref) ==
    IF ref = NullRef THEN hash ELSE Insert(hash, key, ref)
loadClassInsert(hash, key, ref) == Insert(hash, key, ref)

\* loadClass: fromString(key), classLoader.callObjectMethod("loadClass", ...),
\* checkAndClearExceptions, NewGlobalRef, insert, and the locker's release.
\* With an exception pending on entry, fromString clears it and yields an invalid
\* string, so that the class loader is asked for null and throws.
LoadClassLoad(t) ==
    /\ pc[t] = "lc_load"
    /\ LET found == ~excPending[t] /\ JniLoadClass(op[t].bin)
           refs == IF found THEN NewGlobalRef(globalRefs, <<"class", op[t].bin>>)
                            ELSE globalRefs
           ref == IF found THEN Len(refs) ELSE NullRef
       IN  /\ globalRefs' = refs
           /\ loaderCalls' = loaderCalls (+) SetToBag({op[t].bin})
           /\ cachedClasses' = loadClassInsert(cachedClasses, op[t].bin, ref)
           /\ ReturnClass(t, ref)
    /\ excPending' = [excPending EXCEPT ![t] = FALSE]
    /\ cachedClassesLock' = UnlockedBy(cachedClassesLock, t)
    /\ UNCHANGED <<cachedMethodID, cachedMethodIDLock, cachedFieldID,
                   cachedFieldIDLock, classLoaderSet, op, retID, resolved, nOps>>
    /\ UNCHANGED <<objVars, glVars>>

\* findClass: QWriteLocker locker(cachedClassesLock), then "Did we lose the race?"
\* with the locker's release on return.
FindClassLock(t) ==
    /\ pc[t] = "fc_wlock"
    /\ CanLockForWrite(cachedClassesLock)
    /\ IF LostRace(cachedClasses, op[t].bin)
         THEN /\ ReturnClass(t, Stored(cachedClasses, op[t].bin))
              /\ UNCHANGED cachedClassesLock
         ELSE /\ pc' = [pc EXCEPT ![t] = "fc_find"]
              /\ cachedClassesLock' = LockedForWrite(cachedClassesLock, t)
              /\ UNCHANGED clazz
    /\ UNCHANGED <<cachedClasses, cachedMethodID, cachedMethodIDLock, cachedFieldID,
                   cachedFieldIDLock, classLoaderSet, globalRefs, excPending,
                   op, retID, histVars>>
    /\ UNCHANGED <<objVars, glVars>>

\* JNIEnv::FindClass(className) can succeed only for a class that exists, named
\* with '/' separators; with the wrong class loader on the stack it fails too.
JniFindClassCan(cls) ==
    /\ toBinaryEncClassName(cls) \in JavaClasses
    /\ \A i \in 1..Len(cls) : cls[i] # "."

\* What findClass puts in the cache after FindClass: "if (clazz) insert".
findClassInsertAlways(hash, key, ref) == Insert(hash, key, ref)
findClassInsert(hash, key, ref) ==
    IF ref # NullRef THEN Insert(hash, key, ref) ELSE hash

\* findClass: FindClass, checkAndClearExceptions, NewGlobalRef, insert if (clazz),
\* the locker's release at the end of the block, and without a class the call of
\* loadClass(classDotEnc, QJniEnvironment(), true).
FindClassFind(t) ==
    /\ pc[t] = "fc_find"
    /\ \E found \in {FALSE, JniFindClassCan(op[t].cls) /\ ~excPending[t]} :
         LET refs == IF found THEN NewGlobalRef(globalRefs, <<"class", op[t].bin>>)
                              ELSE globalRefs
             ref == IF found THEN Len(refs) ELSE NullRef
         IN  /\ globalRefs' = refs
             /\ cachedClasses' = findClassInsert(cachedClasses, op[t].bin, ref)
             /\ clazz' = [clazz EXCEPT ![t] = ref]
             /\ pc' = [pc EXCEPT ![t] = IF ref # NullRef THEN "done" ELSE "gcc_lock"]
             /\ op' = [op EXCEPT ![t].stage = IF ref # NullRef THEN @ ELSE "lc"]
    /\ excPending' = [excPending EXCEPT ![t] = FALSE]
    /\ cachedClassesLock' = UnlockedBy(cachedClassesLock, t)
    /\ UNCHANGED <<cachedMethodID, cachedMethodIDLock, cachedFieldID,
                   cachedFieldIDLock, classLoaderSet, retID, histVars>>
    /\ UNCHANGED <<objVars, glVars>>

\* ----------------------------------------------- the member caches, stepwise

MemberCache(kind) == IF kind = "method" THEN cachedMethodID ELSE cachedFieldID
MemberLock(kind) == IF kind = "method" THEN cachedMethodIDLock ELSE cachedFieldIDLock

SetMemberLock(kind, lock) ==
    IF kind = "method"
      THEN cachedMethodIDLock' = lock /\ UNCHANGED cachedFieldIDLock
      ELSE cachedFieldIDLock' = lock /\ UNCHANGED cachedMethodIDLock

SetMemberCache(kind, hash) ==
    IF kind = "method"
      THEN cachedMethodID' = hash /\ UNCHANGED cachedFieldID
      ELSE cachedFieldID' = hash /\ UNCHANGED cachedMethodID

\* The key of getCachedMethodID and getCachedFieldID.
MemberKey(o) == keyBase(o.className, o.name, o.sig)

\* getMethodID or getFieldID in the class clazz names, as the thread t calls it.
ResolveMember(t) ==
    IF op[t].member = "method"
      THEN getMethodID(excPending[t], JavaClassOf(clazz[t]), op[t].name, op[t].sig,
                       op[t].static)
      ELSE getFieldID(excPending[t], JavaClassOf(clazz[t]), op[t].name, op[t].sig,
                      op[t].static)

\* The history entry of one Get(Static)(Method|Field)ID call.
Resolution(t, key) ==
    [kind |-> op[t].member, cls |-> JavaClassOf(clazz[t]), name |-> op[t].name,
     sig |-> op[t].sig, static |-> op[t].static, key |-> key]

\* return getMethodID(env, clazz, name, signature, isStatic), without a cache.
MemberDirect(t) ==
    /\ pc[t] = "mem_direct"
    /\ retID' = [retID EXCEPT ![t] = ResolveMember(t)]
    /\ resolved' = resolved (+) SetToBag({Resolution(t, NullName)})
    /\ excPending' = [excPending EXCEPT ![t] = FALSE]
    /\ pc' = [pc EXCEPT ![t] = "done"]
    /\ UNCHANGED <<cacheVars, classLoaderSet, globalRefs, op, clazz, loaderCalls,
                   nOps>>
    /\ UNCHANGED <<objVars, glVars>>

\* QReadLocker locker(cachedMethodIDLock / cachedFieldIDLock).
MemberReadLock(t) ==
    /\ pc[t] = "mem_rlock"
    /\ CanLockForRead(MemberLock(op[t].member))
    /\ SetMemberLock(op[t].member, LockedForRead(MemberLock(op[t].member), t))
    /\ pc' = [pc EXCEPT ![t] = "mem_find"]
    /\ UNCHANGED <<cachedClasses, cachedClassesLock, cachedMethodID, cachedFieldID,
                   classLoaderSet, globalRefs, excPending, op, clazz, retID,
                   histVars>>
    /\ UNCHANGED <<objVars, glVars>>

\* The first look, under the read lock, and the locker's release.
MemberFind(t) ==
    /\ pc[t] = "mem_find"
    /\ SetMemberLock(op[t].member, UnlockedBy(MemberLock(op[t].member), t))
    /\ IF Contains(MemberCache(op[t].member), MemberKey(op[t]))
         THEN /\ retID' = [retID EXCEPT ![t] =
                              MemberCache(op[t].member)[MemberKey(op[t])]]
              /\ pc' = [pc EXCEPT ![t] = "done"]
         ELSE /\ pc' = [pc EXCEPT ![t] = "mem_wlock"]
              /\ UNCHANGED retID
    /\ UNCHANGED <<cachedClasses, cachedClassesLock, cachedMethodID, cachedFieldID,
                   classLoaderSet, globalRefs, excPending, op, clazz, histVars>>
    /\ UNCHANGED <<objVars, glVars>>

\* QWriteLocker locker(cachedMethodIDLock / cachedFieldIDLock), then the second
\* look, under the write lock, with the locker's release on return.
MemberWriteLock(t) ==
    /\ pc[t] = "mem_wlock"
    /\ CanLockForWrite(MemberLock(op[t].member))
    /\ IF LostRace(MemberCache(op[t].member), MemberKey(op[t]))
         THEN /\ retID' = [retID EXCEPT ![t] =
                              MemberCache(op[t].member)[MemberKey(op[t])]]
              /\ pc' = [pc EXCEPT ![t] = "done"]
              /\ UNCHANGED <<cachedMethodIDLock, cachedFieldIDLock>>
         ELSE /\ pc' = [pc EXCEPT ![t] = "mem_resolve"]
              /\ SetMemberLock(op[t].member,
                               LockedForWrite(MemberLock(op[t].member), t))
              /\ UNCHANGED retID
    /\ UNCHANGED <<cachedClasses, cachedClassesLock, cachedMethodID, cachedFieldID,
                   classLoaderSet, globalRefs, excPending, op, clazz, histVars>>
    /\ UNCHANGED <<objVars, glVars>>

\* What getCachedMethodID / getCachedFieldID put in the cache: the ID they got,
\* null included.
memberInsertFound(hash, key, id) ==
    IF id = NullID THEN hash ELSE Insert(hash, key, id)
memberInsert(hash, key, id) == Insert(hash, key, id)

\* getMethodID / getFieldID, insert(key, id), and the locker's release.
MemberResolve(t) ==
    /\ pc[t] = "mem_resolve"
    /\ retID' = [retID EXCEPT ![t] = ResolveMember(t)]
    /\ SetMemberCache(op[t].member,
                      memberInsert(MemberCache(op[t].member), MemberKey(op[t]),
                                   ResolveMember(t)))
    /\ SetMemberLock(op[t].member, UnlockedBy(MemberLock(op[t].member), t))
    /\ resolved' = resolved (+) SetToBag({Resolution(t, MemberKey(op[t]))})
    /\ excPending' = [excPending EXCEPT ![t] = FALSE]
    /\ pc' = [pc EXCEPT ![t] = "done"]
    /\ UNCHANGED <<cachedClasses, cachedClassesLock, classLoaderSet, globalRefs,
                   op, clazz, loaderCalls, nOps>>
    /\ UNCHANGED <<objVars, glVars>>

\* The next step of the lookup thread t is in.
Advance(t) ==
    \/ GetCachedClassLock(t)
    \/ GetCachedClassFind(t)
    \/ LoadClassLock(t)
    \/ LoadClassLoad(t)
    \/ FindClassLock(t)
    \/ FindClassFind(t)
    \/ MemberDirect(t)
    \/ MemberReadLock(t)
    \/ MemberFind(t)
    \/ MemberWriteLock(t)
    \/ MemberResolve(t)

NextCache ==
    \/ SetClassLoader
    \/ \E t \in Threads :
        \/ StartLoadClass(t)
        \/ StartFindClass(t)
        \/ StartStatic(t)
        \/ StartSetStatic(t)
        \/ StartInstanceByName(t)
        \/ StartInstanceByRef(t)
        \/ StartStaticByClass(t)
        \/ Advance(t)

SpecCache == Init /\ [][NextCache]_vars

\* Every JNI call returns and the scheduler runs every thread that can run: a
\* thread inside a lookup takes its next step once the lock it waits for stays
\* free.
SpecCacheFair == SpecCache /\ \A t \in Threads : WF_vars(Advance(t))


\* ------------------------------------- wrapper operations, one thread's view

\* The thread of the application that uses the wrappers.
JniThread == "t1"

\* The element of a one-element set. The({F(x) : x \in {v}}) is F(v) with v
\* evaluated once: a local variable of the code that later statements read
\* several times.
The(S) == CHOOSE r \in S : TRUE

\* Java objects: a null reference names none; the application holds a global
\* reference to one object of its own.
NullObj == <<>>
AppObject == <<"object", ClsDot, <<"app">>>>
OtherObject == <<"object", <<"O">>, <<"other">>>>
StringObj == <<"object", <<"S">>, <<"string">>>>
ClassLoaderObj == <<"object", <<"L">>, <<"loader">>>>
ClassObj(bin) == <<"class", bin>>
ClassOfObject(obj) == IF obj[1] = "class" THEN <<"C">> ELSE obj[2]

\* The JNI state one operation works on: the thread's pending exception, the
\* global and local references, the caches and the QJniObjectPrivate instances; unsafe
\* records a JNI call made while an exception was pending.
Env ==
    [exc |-> excPending[JniThread], unsafe |-> unsafeCall, refs |-> globalRefs,
     classes |-> cachedClasses, mids |-> cachedMethodID, fids |-> cachedFieldID,
     privs |-> privs, locals |-> localRefs]

SetEnv(e) ==
    /\ excPending' = [excPending EXCEPT ![JniThread] = e.exc]
    /\ unsafeCall' = e.unsafe
    /\ globalRefs' = e.refs
    /\ cachedClasses' = e.classes
    /\ cachedMethodID' = e.mids
    /\ cachedFieldID' = e.fids
    /\ privs' = e.privs
    /\ localRefs' = e.locals

\* A JNI function other than the exception functions is called; it may raise.
Jni(e, raises) ==
    The({[x EXCEPT !.unsafe = x.unsafe \/ x.exc, !.exc = x.exc \/ raises]
         : x \in {e}})

\* QJniEnvironment::checkAndClearExceptions: ExceptionCheck, and when it answers
\* true ExceptionDescribe and ExceptionClear. Its result is e.exc.
checkAndClearExceptions(e) == [e EXCEPT !.exc = FALSE]

\* env->NewGlobalRef(obj); the new reference is Len(refs), and NewGlobalRef(NULL)
\* is NULL.
EnvNewGlobalRef(e, obj) ==
    IF obj = NullObj THEN Jni(e, FALSE)
    ELSE [Jni(e, FALSE) EXCEPT !.refs = NewGlobalRef(@, obj)]

DeleteGlobalRef(e, ref) == [Jni(e, FALSE) EXCEPT !.refs[ref].deleted = @ + 1]

\* env->DeleteLocalRef of a local reference the operation obtained itself (the
\* model gives those no name), and of a local reference the caller holds.
DeleteLocalRef(e) == Jni(e, FALSE)
DeleteLocalRefNever(e, lref) == Jni(e, FALSE)
DeleteLocalRefTo(e, lref) ==
    IF lref = NullRef THEN Jni(e, FALSE)
    ELSE [Jni(e, FALSE) EXCEPT !.locals[lref].deleted = @ + 1]

\* QJniObjectPrivate() = default.
QJniObjectPrivateNamed ==
    [m_jobject |-> NullRef, m_jclass |-> NullRef, m_own_jclass |-> TRUE,
     m_className |-> ClsDot]
QJniObjectPrivate ==
    [m_jobject |-> NullRef, m_jclass |-> NullRef, m_own_jclass |-> TRUE,
     m_className |-> NullName]

\* Whether ~QJniObjectPrivate deletes m_jobject and m_jclass.
DeletesObjectNever(p) == FALSE
DeletesObject(p) == p.m_jobject # NullRef
DeletesClassNever(p) == FALSE
DeletesClass(p) == p.m_jclass # NullRef /\ p.m_own_jclass

\* ~QJniObjectPrivate.
DestroyPrivate(e, p) ==
    IF DeletesClass(p)
      THEN DeleteGlobalRef(IF DeletesObject(p) THEN DeleteGlobalRef(e, p.m_jobject)
                                               ELSE e,
                           p.m_jclass)
      ELSE IF DeletesObject(p) THEN DeleteGlobalRef(e, p.m_jobject) ELSE e

\* d(new QJniObjectPrivate()) with the fields the constructor has set.
AddPrivate(e, p) == [e EXCEPT !.privs = Append(@, p)]

\* QJniObject(jobject obj): the state after it and the private it has built, with
\* the two global references it has created.
WrapObjectNoClass(e, obj) ==
    IF obj = NullObj THEN [env |-> e, priv |-> QJniObjectPrivate]
    ELSE [env |-> DeleteLocalRef(Jni(EnvNewGlobalRef(e, obj), FALSE)),
          priv |-> [QJniObjectPrivate EXCEPT !.m_jobject = Len(e.refs) + 1]]
WrapObject(e, obj) ==
    IF obj = NullObj THEN [env |-> e, priv |-> QJniObjectPrivate]
    ELSE The({[env |-> DeleteLocalRef(
                           EnvNewGlobalRef(Jni(EnvNewGlobalRef(x, obj), FALSE),
                                           ClassObj(ClassOfObject(obj)))),
               priv |-> [QJniObjectPrivate
                             EXCEPT !.m_jobject = Len(x.refs) + 1,
                                    !.m_jclass = Len(x.refs) + 2]]
              : x \in {e}})

\* getCleanJniObject(obj), after the JNI call that produced obj.
getCleanJniObject(e, obj) ==
    IF obj = NullObj THEN [env |-> e, priv |-> QJniObjectPrivate]
    ELSE The({IF x.exc
                THEN [env |-> DeleteLocalRef(checkAndClearExceptions(x)),
                      priv |-> QJniObjectPrivate]
                ELSE The({[env |-> DeleteLocalRef(r.env), priv |-> r.priv]
                          : r \in {WrapObject(x, obj)}})
              : x \in {e}})

\* A QJniObject that is a temporary or a local of the operation: its private is
\* created, and destroyed when the object goes out of scope.
DropTemporary(e, p) == DestroyPrivate(AddPrivate(e, p), p)

\* getMethodID / getFieldID as one thread runs it: the JNI lookup and
\* checkAndClearExceptions.
GetID(e, kind, cls, name, sig, isStatic) ==
    The({[env |-> checkAndClearExceptions(
                      Jni(x, JniGetID(cls, name, sig, isStatic).raised)),
          id |-> IF kind = "method"
                   THEN getMethodID(x.exc, cls, name, sig, isStatic)
                   ELSE getFieldID(x.exc, cls, name, sig, isStatic)]
         : x \in {e}})

\* getCachedMethodID / getCachedFieldID after a miss: the lookup and the insert.
CachedIDMiss(x, kind, cls, key, name, sig, isStatic) ==
    The({[env |-> IF kind = "method"
                    THEN [got.env EXCEPT !.mids = memberInsert(@, key, got.id)]
                    ELSE [got.env EXCEPT !.fids = memberInsert(@, key, got.id)],
          id |-> got.id]
         : got \in {GetID(x, kind, cls, name, sig, isStatic)}})

\* getCachedMethodID / getCachedFieldID as one thread runs it: the state after
\* it and the ID it returns.
CachedID(e, kind, cls, className, name, sig, isStatic) ==
    LET key == keyBase(className, name, sig)
        bypass == BypassCache([member |-> kind, className |-> className])
    IN  IF bypass THEN GetID(e, kind, cls, name, sig, isStatic)
        ELSE The({LET hash == IF kind = "method" THEN x.mids ELSE x.fids
                  IN  IF Contains(hash, key) THEN [env |-> x, id |-> hash[key]]
                      ELSE CachedIDMiss(x, kind, cls, key, name, sig, isStatic)
                  : x \in {e}})

\* loadClass after classObject is set: checkAndClearExceptions, NewGlobalRef,
\* the insert, and the destruction of the locals classObject, stringName and
\* classLoader.
LoadClassInsert(classLoader, stringName, classObject, bin) ==
    LET ok == ~classObject.env.exc /\ classObject.priv.m_jobject # NullRef
        ref == IF ok THEN Len(classObject.env.refs) + 1 ELSE NullRef
        e1 == checkAndClearExceptions(classObject.env)
        e2 == IF ok THEN EnvNewGlobalRef(e1, ClassObj(bin)) ELSE e1
    IN  [env |-> DropTemporary(
                     DropTemporary(
                         DropTemporary(
                             [e2 EXCEPT !.classes = loadClassInsert(@, bin, ref)],
                             classObject.priv),
                         stringName),
                     classLoader),
         clazz |-> ref]

\* QJniObject classObject = classLoader.callObjectMethod("loadClass", ...,
\* stringName.object()): the ID lookup, the call and getCleanJniObject. The class
\* loader throws when the name is null or names no class.
LoadClassCall(classLoader, stringName, bin) ==
    LET loads == stringName.priv.m_jobject # NullRef /\ JniLoadClass(bin)
        called == Jni(checkAndClearExceptions(Jni(stringName.env, FALSE)),
                      ~loads)
    IN  The({LoadClassInsert(classLoader, stringName.priv, classObject, bin)
             : classObject \in {getCleanJniObject(
                                    called,
                                    IF loads THEN ClassObj(bin) ELSE NullObj)}})

\* QJniObject stringName = QJniObject::fromString(key).
LoadClassString(classLoader, bin) ==
    The({LoadClassCall(classLoader.priv, stringName, bin)
         : stringName \in {getCleanJniObject(Jni(classLoader.env, FALSE),
                                             StringObj)}})

\* loadClass after a miss, when a class loader is set.
LoadClassMiss(x, bin) ==
    The({LoadClassString(classLoader, bin)
         : classLoader \in {WrapObject(x, ClassLoaderObj)}})

\* loadClass as one thread runs it: the state after it and the handle it returns.
loadClass(e, className) ==
    LET bin == toBinaryEncClassName(className)
    IN  The({IF Contains(x.classes, bin)
               THEN [env |-> x, clazz |-> x.classes[bin]]
             ELSE IF ~classLoaderSet
               THEN [env |-> DropTemporary(x, QJniObjectPrivate),
                     clazz |-> NullRef]
             ELSE LoadClassMiss(x, bin)
             : x \in {e}})

\* The Java class a class reference names, in the state e.
ClassAt(e, ref) == e.refs[ref].obj[2]

\* What the Java side does when a member is invoked or a field accessed: it may
\* throw, and the JNI function returns a value (for an object: 0 is null).
Outcomes == [raises : BOOLEAN, value : {0, 1}]
RetObj == <<"object", ClsDot, <<"ret">>>>

\* The outcome of an operation: the state after it, whether it made its JNI
\* call, the primitive it returns and whether the wrapper it returns is valid.
NotCalled(e) == [env |-> e, called |-> FALSE, result |-> 0, valid |-> FALSE]

\* res = env->Call...(...); if (env.checkAndClearExceptions()) res = 0;
ZeroNever(exc, value) == value
ZeroOnException(exc, value) == IF exc THEN 0 ELSE value
PrimitiveFunnel(e, out) ==
    The({[env |-> checkAndClearExceptions(e1), called |-> TRUE,
          result |-> ZeroOnException(e1.exc, out.value), valid |-> FALSE]
         : e1 \in {Jni(e, out.raises)}})

\* env->Call...(...); env.checkAndClearExceptions();
VoidFunnel(e, out) ==
    [env |-> checkAndClearExceptions(Jni(e, out.raises)), called |-> TRUE,
     result |-> 0, valid |-> FALSE]

\* return getCleanJniObject(env->Call...(...)); the wrapper returned is a
\* temporary of the caller.
CleanFunnel(e, out, obj) ==
    The({[env |-> DropTemporary(r.env, r.priv), called |-> TRUE, result |-> 0,
          valid |-> r.priv.m_jobject # NullRef]
         : r \in {getCleanJniObject(Jni(e, out.raises),
                                    IF out.value = 0 THEN NullObj ELSE obj)}})

\* callObjectMethodV and callStaticObjectMethodV(className) after the JNI call:
\* the check, QJniObject obj(res), DeleteLocalRef(res).
ObjectVCheck(e1, called, out) ==
    LET raised == called /\ e1.exc
        res == IF ~called \/ e1.exc \/ out.value = 0 THEN NullObj ELSE RetObj
    IN  The({[env |-> DropTemporary(DeleteLocalRef(r.env), r.priv),
              called |-> called, result |-> 0,
              valid |-> r.priv.m_jobject # NullRef]
             : r \in {WrapObject(
                          IF raised
                            THEN DeleteLocalRef(checkAndClearExceptions(e1))
                            ELSE e1,
                          res)}})

\* callObjectMethodV and callStaticObjectMethodV(className); res stays null when
\* no ID was found.
ObjectVFunnel(e, called, out) ==
    The({ObjectVCheck(e1, called, out)
         : e1 \in {IF called THEN Jni(e, out.raises) ELSE e}})

\* The part of an operation after the ID lookup.
Invoke(e, funnel, id, out) ==
    IF funnel = "objectV" THEN ObjectVFunnel(e, id # NullID, out)
    ELSE IF id = NullID THEN NotCalled(e)
    ELSE IF funnel = "primitive" THEN PrimitiveFunnel(e, out)
    ELSE IF funnel = "void" THEN VoidFunnel(e, out)
    ELSE CleanFunnel(e, out, RetObj)

\* The operations on a wrapper's object, by the shape of their code: which ID
\* cache they use and what follows their JNI call. callMethod<T> stands for
\* callMethodV<T> too, whose code differs in the va_list only.
InstanceOps ==
    { [api |-> "callMethod", member |-> "method", funnel |-> "primitive"],
      [api |-> "callMethod<void>", member |-> "method", funnel |-> "void"],
      [api |-> "getField", member |-> "field", funnel |-> "primitive"],
      [api |-> "setField", member |-> "field", funnel |-> "void"],
      [api |-> "callObjectMethod", member |-> "method", funnel |-> "clean"],
      [api |-> "callObjectMethodV", member |-> "method", funnel |-> "objectV"],
      [api |-> "getObjectField", member |-> "field", funnel |-> "clean"] }

\* The static operations that take a class name; raw: the ID cache is given the
\* class name as passed, not toBinaryEncClassName(className).
ClassNameOps ==
    { [api |-> "callStaticMethod", member |-> "method", funnel |-> "primitive",
       raw |-> FALSE],
      [api |-> "callStaticMethod<void>", member |-> "method", funnel |-> "void",
       raw |-> FALSE],
      [api |-> "getStaticField", member |-> "field", funnel |-> "primitive",
       raw |-> FALSE],
      [api |-> "setStaticField", member |-> "field", funnel |-> "void",
       raw |-> TRUE],
      [api |-> "callStaticObjectMethod", member |-> "method", funnel |-> "clean",
       raw |-> FALSE],
      [api |-> "callStaticObjectMethodV", member |-> "method",
       funnel |-> "objectV", raw |-> FALSE],
      [api |-> "getStaticObjectField", member |-> "field", funnel |-> "clean",
       raw |-> FALSE] }

\* The static operations that take a jclass.
JclassOps ==
    { [api |-> "callStaticMethod", member |-> "method", funnel |-> "primitive"],
      [api |-> "callStaticMethod<void>", member |-> "method", funnel |-> "void"],
      [api |-> "getStaticField", member |-> "field", funnel |-> "primitive"],
      [api |-> "setStaticField", member |-> "field", funnel |-> "void"],
      [api |-> "callStaticObjectMethod", member |-> "method", funnel |-> "clean"],
      [api |-> "getStaticObjectField", member |-> "field", funnel |-> "clean"] }

\* ------------------------------------------------ wrapper operations: actions

\* The QJniObjectPrivate the wrapper w shares, and QJniObject::isValid().
Priv(w) == privs[d[w]]
isValidAlways(w) == d[w] # NoPriv
isValid(w) == d[w] # NoPriv /\ Priv(w).m_jobject # NullRef

\* QSharedPointer<QJniObjectPrivate>: the private is destroyed when the last
\* wrapper sharing it lets go of it.
LastOwnerAlways(w) == d[w] # NoPriv
LastOwner(w) == d[w] # NoPriv /\ \A v \in Wrappers \ {w} : d[v] # d[w]
ReleaseNever(e, w) == e
Release(e, w) == IF LastOwner(w) THEN DestroyPrivate(e, e.privs[d[w]]) ELSE e

\* The application's thread may start one more operation.
MayCall == nOps < MaxCalls

\* What is remembered of the last operation: the shape of its code, whether it
\* made its JNI call, whether that call raised and what it returned, the
\* primitive the operation returned, whether the wrapper it returned or built is
\* valid, and whether the private it let go of is still shared by a wrapper;
\* then whether the class and the member it names were resolved, the wrapper it
\* was called on, the wrapper it was given, and the reference and the string it
\* was given or returned.
Outcome(funnel, called, out, result, valid, shared) ==
    [funnel |-> funnel, called |-> called, raised |-> called /\ out.raises,
     returned |-> IF called THEN out.value ELSE 0,
     result |-> result, valid |-> valid, shared |-> shared,
     found |-> called, w |-> "none", v |-> "none", ref |-> NullRef,
     text |-> NullName]

Remember(funnel, called, out, result, valid, shared) ==
    last' = Outcome(funnel, called, out, result, valid, shared)

NoOutcome == [raises |-> FALSE, value |-> 0]
Threw(raises) == [raises |-> raises, value |-> 0]

\* One operation of the application's thread, with what is remembered of it.
StepOf(outcome) ==
    /\ nOps' = nOps + 1
    /\ last' = outcome
    /\ UNCHANGED <<cachedClassesLock, cachedMethodIDLock, cachedFieldIDLock,
                   classLoaderSet, threadVars, resolved, loaderCalls,
                   glVars>>

Step(funnel, called, out, result, valid, shared) ==
    StepOf(Outcome(funnel, called, out, result, valid, shared))

\* The wrapper w is constructed with the private p.
Bind(e, w, p) ==
    /\ SetEnv(AddPrivate(e, p))
    /\ d' = [d EXCEPT ![w] = Len(e.privs) + 1]

\* QJniObject::QJniObject().
DefaultConstruct(w) ==
    /\ MayCall
    /\ d[w] = NoPriv
    /\ \E e \in {Env} : Bind(e, w, QJniObjectPrivate)
    /\ StepOf([Outcome("QJniObject()", FALSE, NoOutcome, 0, FALSE, FALSE)
                  EXCEPT !.w = w])

\* jobject obj = env->NewObject(V)(d->m_jclass, constructorId, ...) and what the
\* constructors do with obj; a constructor that throws makes NewObject return
\* null.
NewObject(e, p, id, raises) ==
    IF id = NullID THEN [env |-> e, priv |-> p]
    ELSE The({LET obj == <<"object", ClassAt(e1, p.m_jclass),
                           <<"new", Len(e1.refs)>>>>
              IN  IF e1.exc THEN [env |-> e1, priv |-> p]
                  ELSE [env |-> DeleteLocalRef(EnvNewGlobalRef(e1, obj)),
                        priv |-> [p EXCEPT !.m_jobject = Len(e1.refs) + 1]]
              : e1 \in {Jni(e, raises)}})

\* Whether the private of a wrapper built from a class name owns m_jclass.
ByNameOwnsClassDefault == TRUE
ByNameOwnsClass == FALSE

\* The constructor signatures the application asks for.
CtorSigs == {SigCtor, SigI}

\* What NewObject may do: nothing is called when no constructor was found.
Raises(id) == IF id = NullID THEN {FALSE} ELSE BOOLEAN

\* QJniObject(const char *className) after loadClass: the constructor's ID.
CtorByNameID(lc, bin, sig) ==
    The({[env |-> ci.env, id |-> ci.id,
          priv |-> [QJniObjectPrivate EXCEPT !.m_className = bin,
                                             !.m_jclass = lc.clazz,
                                             !.m_own_jclass = ByNameOwnsClass]]
         : ci \in {IF lc.clazz = NullRef THEN [env |-> lc.env, id |-> NullID]
                   ELSE CachedID(lc.env, "method", ClassAt(lc.env, lc.clazz),
                                 bin, NameInit, sig, FALSE)}})

\* QJniObject(const char *className) and QJniObject(className, signature, ...),
\* up to the test of constructorId.
CtorByName(e, className, sig) ==
    LET bin == toBinaryEncClassName(className)
    IN  The({CtorByNameID(lc, bin, sig) : lc \in {loadClass(e, bin)}})

\* QJniObject(const char *className) and QJniObject(className, signature, ...).
ConstructByName(w) ==
    /\ MayCall
    /\ d[w] = NoPriv
    /\ \E className \in UserClassNames, sig \in CtorSigs :
         \E c \in {CtorByName(Env, className, sig)} :
           \E raises \in Raises(c.id) :
             \E r \in {NewObject(c.env, c.priv, c.id, raises)} :
               /\ Bind(r.env, w, r.priv)
               /\ StepOf([Outcome("QJniObject(className)", c.id # NullID,
                                  Threw(raises), 0, r.priv.m_jobject # NullRef,
                                  FALSE)
                              EXCEPT !.w = w, !.text = className])

\* d->m_jclass = static_cast<jclass>(env->NewGlobalRef(clazz)): the handle the
\* wrapper keeps is the new reference, not the caller's.
KeptClassRefCallers(x, clazzRef) == clazzRef
KeptClassRef(x, clazzRef) == Len(x.refs) + 1

\* QJniObject(jclass clazz), and QJniObject(jclass clazz, signature, ...) which
\* tests clazz before NewGlobalRef(clazz), up to the test of constructorId.
CtorByClass(e, clazzRef, sig) ==
    The({IF clazzRef = NullRef
           THEN [env |-> IF sig = SigCtor THEN EnvNewGlobalRef(x, NullObj)
                                          ELSE x,
                 id |-> NullID, priv |-> QJniObjectPrivate]
           ELSE The({[env |-> gi.env, id |-> gi.id,
                      priv |-> [QJniObjectPrivate
                                    EXCEPT !.m_jclass =
                                               KeptClassRef(x, clazzRef)]]
                     : gi \in {GetID(EnvNewGlobalRef(x, x.refs[clazzRef].obj),
                                     "method", ClassAt(x, clazzRef), NameInit,
                                     sig, FALSE)}})
         : x \in {e}})

\* QJniObject(jclass clazz) and QJniObject(jclass clazz, signature, ...).
ConstructByClass(w) ==
    /\ MayCall
    /\ d[w] = NoPriv
    /\ \E clazzRef \in {NullRef, AppClassRef}, sig \in CtorSigs :
         \E c \in {CtorByClass(Env, clazzRef, sig)} :
           \E raises \in Raises(c.id) :
             \E r \in {NewObject(c.env, c.priv, c.id, raises)} :
               /\ Bind(r.env, w, r.priv)
               /\ StepOf([Outcome("QJniObject(jclass)", c.id # NullID,
                                  Threw(raises), 0, r.priv.m_jobject # NullRef,
                                  FALSE)
                              EXCEPT !.w = w, !.ref = clazzRef])

\* The references the application passes where a jobject is taken: null, its own
\* global reference, or the object() of one of its valid wrappers.
ObjectRefs ==
    {NullRef, AppObjectRef}
        \cup {ref \in DOMAIN globalRefs :
                 globalRefs[ref] = [obj |-> OtherObject, deleted |-> 0]}
        \cup {Priv(v).m_jobject : v \in {u \in Wrappers : isValid(u)}}
ObjectAt(e, ref) == IF ref = NullRef THEN NullObj ELSE e.refs[ref].obj

\* QJniObject(jobject obj).
ConstructFromObject(w) ==
    /\ MayCall
    /\ d[w] = NoPriv
    /\ \E ref \in ObjectRefs :
         \E r \in {WrapObject(Env, ObjectAt(Env, ref))} :
           /\ Bind(r.env, w, r.priv)
           /\ StepOf([Outcome("QJniObject(jobject)", FALSE, NoOutcome, 0,
                              r.priv.m_jobject # NullRef, FALSE)
                          EXCEPT !.w = w, !.ref = ref])

\* The local references the application passes to fromLocalRef: null, or one it
\* holds and has not deleted.
LocalRefs == {NullRef} \cup {l \in DOMAIN localRefs : localRefs[l].deleted = 0}
LocalAt(e, lref) == IF lref = NullRef THEN NullObj ELSE e.locals[lref].obj

\* QJniObject::fromLocalRef(lref): QJniObject obj(lref); DeleteLocalRef(lref).
FromLocalRef(w) ==
    /\ MayCall
    /\ d[w] = NoPriv
    /\ \E lref \in LocalRefs :
         \E r \in {WrapObject(Env, LocalAt(Env, lref))} :
           /\ Bind(DeleteLocalRefTo(r.env, lref), w, r.priv)
           /\ StepOf([Outcome("fromLocalRef", FALSE, NoOutcome, 0,
                              r.priv.m_jobject # NullRef, FALSE)
                          EXCEPT !.w = w, !.ref = lref])

\* The copy constructor: the new wrapper shares the private of the other.
Copy(w) ==
    \E v \in Wrappers \ {w} :
        /\ d[w] = NoPriv
        /\ d[v] # NoPriv
        /\ d' = [d EXCEPT ![w] = d[v]]
        /\ Remember("copy", FALSE, NoOutcome, 0, isValid(v), TRUE)
        /\ UNCHANGED <<cacheVars, classLoaderSet, globalRefs, excPending,
                       threadVars, histVars, privs, localRefs, unsafeCall,
                   glVars>>

\* QJniObject::~QJniObject().
Destroy(w) ==
    /\ d[w] # NoPriv
    /\ \E e \in {Release(Env, w)} : SetEnv(e)
    /\ d' = [d EXCEPT ![w] = NoPriv]
    /\ Remember("~QJniObject", FALSE, NoOutcome, 0, FALSE, ~LastOwner(w))
    /\ UNCHANGED <<cachedClassesLock, cachedMethodIDLock, cachedFieldIDLock,
                   classLoaderSet, threadVars, histVars,
                   glVars>>

\* QJniObject::isSameObject(jobject obj): IsSameObject(d->m_jobject, obj).
IsSameObjectNever(e, ref1, ref2) == FALSE
IsSameObject(e, ref1, ref2) == ObjectAt(e, ref1) = ObjectAt(e, ref2)

\* QJniObject::assign(jobject obj).
Assign(w) ==
    /\ MayCall
    /\ d[w] # NoPriv
    /\ \E ref \in ObjectRefs :
         IF IsSameObject(Env, Priv(w).m_jobject, ref)
           THEN /\ SetEnv(Jni(Env, FALSE))
                /\ StepOf([Outcome("assign", FALSE, NoOutcome, 0, isValid(w),
                                   FALSE)
                               EXCEPT !.w = w, !.ref = ref])
                /\ UNCHANGED d
           ELSE \E r \in {WrapObject(Release(Jni(Env, FALSE), w),
                                      ObjectAt(Env, ref))} :
                  /\ Bind(r.env, w, r.priv)
                  /\ StepOf([Outcome("assign", FALSE, NoOutcome, 0,
                                     r.priv.m_jobject # NullRef, ~LastOwner(w))
                                 EXCEPT !.w = w, !.ref = ref])

\* QJniObject::isSameObject(const QJniObject &other).
isSameObjectShared(w, v) == d[w] = d[v]
isSameObject(w, v) ==
    IsSameObject(Env, Priv(w).m_jobject, Priv(v).m_jobject)

\* operator==(o1, o2), which is o1.isSameObject(o2); operator!= is its negation.
Equals(w) ==
    \E v \in Wrappers \ {w} :
        /\ d[w] # NoPriv
        /\ d[v] # NoPriv
        /\ SetEnv(Jni(Env, FALSE))
        /\ last' = [Outcome("operator==", TRUE, NoOutcome,
                            IF isSameObject(w, v) THEN 1 ELSE 0, FALSE, FALSE)
                        EXCEPT !.w = w, !.v = v]
        /\ UNCHANGED <<d, cachedClassesLock, cachedMethodIDLock,
                       cachedFieldIDLock, classLoaderSet, threadVars, histVars,
                   glVars>>

\* What the Java side may do in the JNI call of an operation: nothing without an
\* ID (no call is made), and no value is returned to a void operation.
OutcomesOf(funnel, id) ==
    IF id = NullID THEN {NoOutcome}
    ELSE IF funnel = "void" THEN {o \in Outcomes : o.value = 0}
    ELSE Outcomes

\* The ID lookup of a static operation given a class name.
ClassNameLookup(e, a, className, name) ==
    LET key == IF a.raw THEN className ELSE toBinaryEncClassName(className)
    IN  The({IF lc.clazz = NullRef THEN [env |-> lc.env, id |-> NullID]
             ELSE CachedID(lc.env, a.member, ClassAt(lc.env, lc.clazz), key,
                           name, SigI, TRUE)
             : lc \in {loadClass(e, className)}})

\* The ID lookup, the JNI call and the exception funnel of an operation.
Call(a, lookup) ==
    \E out \in OutcomesOf(a.funnel, lookup.id) :
      \E r \in {Invoke(lookup.env, a.funnel, lookup.id, out)} :
        /\ SetEnv(r.env)
        /\ StepOf([Outcome(a.funnel, r.called, out, r.result, r.valid, FALSE)
                      EXCEPT !.found = lookup.id # NullID])
        /\ UNCHANGED d

\* An operation on the object of a valid wrapper: callMethod, getField, ...
InstanceCall(w) ==
    /\ MayCall
    /\ isValid(w)
    /\ \E a \in InstanceOps, name \in MemberNames :
         \E lookup \in {CachedID(Env, a.member, ClassAt(Env, Priv(w).m_jclass),
                                 Priv(w).m_className, name, SigI, FALSE)} :
           Call(a, lookup)

\* A static operation given a class name: callStaticMethod, getStaticField, ...
StaticCallByName ==
    /\ MayCall
    /\ \E a \in ClassNameOps, className \in UserClassNames, name \in MemberNames :
         \E lookup \in {ClassNameLookup(Env, a, className, name)} :
           Call(a, lookup)

\* A static operation given the application's jclass.
StaticCallByClass ==
    /\ MayCall
    /\ \E a \in JclassOps, name \in MemberNames :
         \E lookup \in {GetID(Env, a.member, ClassAt(Env, AppClassRef), name,
                              SigI, TRUE)} :
           Call(a, lookup)

\* env->NewString(unicodeChars, len): the characters of the new Java string;
\* GetStringLength and GetStringRegion(str, start, len, buf).
NewString(unicodeChars, len) == SubSeq(unicodeChars, 1, len)
GetStringLength(str) == Len(str)
GetStringRegion(str, start, len) == SubSeq(str, start + 1, start + len)

\* qt_convertJString(string), for a string that is not null.
qt_convertJStringShort(str) == GetStringRegion(str, 0, GetStringLength(str) - 1)
qt_convertJString(str) == GetStringRegion(str, 0, GetStringLength(str))

\* The Java string NewString makes in the state e, and the characters of a
\* Java string.
NewStringObj(e, chars) ==
    <<"object", ClsString, <<"string", chars, Len(e.refs)>>>>
CharsOf(obj) == obj[3][2]

\* QJniObject::fromString(string): NewString may fail with an OutOfMemoryError.
FromString(w) ==
    /\ MayCall
    /\ d[w] = NoPriv
    /\ \E string \in Strings, out \in Outcomes :
         \E r \in {getCleanJniObject(
                       Jni(Env, out.raises),
                       IF out.value = 0 THEN NullObj
                       ELSE NewStringObj(Env, NewString(string, Len(string))))} :
           /\ Bind(r.env, w, r.priv)
           /\ StepOf([Outcome("fromString", TRUE, out, 0,
                              r.priv.m_jobject # NullRef, FALSE)
                          EXCEPT !.w = w, !.text = string])

\* The Java object a global reference names (none for the null reference).
JavaObject(ref) == IF ref = NullRef THEN NullObj ELSE globalRefs[ref].obj

\* What toString() of a Java object returns: a String returns itself, another
\* object a new String, unless it throws or returns null.
JavaToString(e, obj) ==
    IF obj[2] = ClsString THEN obj ELSE NewStringObj(e, <<"o">>)
ToStringOutcomes(obj, id) ==
    IF id = NullID THEN {NoOutcome}
    ELSE IF obj[2] = ClsString THEN {[raises |-> FALSE, value |-> 1]}
    ELSE Outcomes

\* QJniObject string = callObjectMethod<jstring>("toString").
ToStringCall(e, obj, id, out) ==
    IF id = NullID THEN [env |-> e, priv |-> QJniObjectPrivate]
    ELSE getCleanJniObject(Jni(e, out.raises),
                           IF out.value = 0 THEN NullObj
                                            ELSE JavaToString(e, obj))

\* qt_convertJString(string.object()): GetStringLength and GetStringRegion.
\* With a null jstring the behaviour of GetStringLength is undefined: a build
\* that does not stop there yields an empty or an arbitrary string.
ConvertedStrings(e, string) ==
    IF string.m_jobject = NullRef THEN {NullName, <<"?">>}
    ELSE {qt_convertJString(CharsOf(e.refs[string.m_jobject].obj))}

\* QJniObject::toString().
toString(w) ==
    /\ MayCall
    /\ d[w] # NoPriv
    /\ IF ~isValid(w)
         THEN /\ StepOf([Outcome("toString", FALSE, NoOutcome, 0, FALSE, FALSE)
                            EXCEPT !.w = w, !.text = NullName])
              /\ UNCHANGED <<cachedClasses, cachedMethodID, cachedFieldID,
                             globalRefs, excPending, d, privs, localRefs,
                             unsafeCall>>
         ELSE \E lookup \in {CachedID(Env, "method",
                                      ClassAt(Env, Priv(w).m_jclass),
                                      Priv(w).m_className, NameToString,
                                      SigToString, FALSE)} :
                \E out \in ToStringOutcomes(JavaObject(Priv(w).m_jobject),
                                            lookup.id) :
                  \E r \in {ToStringCall(lookup.env,
                                         JavaObject(Priv(w).m_jobject),
                                         lookup.id, out)} :
                    \E text \in ConvertedStrings(r.env, r.priv) :
                      /\ SetEnv(DropTemporary(Jni(Jni(r.env, FALSE), FALSE),
                                              r.priv))
                      /\ StepOf([Outcome("toString", lookup.id # NullID, out,
                                         0, r.priv.m_jobject # NullRef, FALSE)
                                     EXCEPT !.w = w, !.text = text])
                      /\ UNCHANGED d

\* QJniObject::isClassAvailable(className): false without a JNI environment for
\* the thread, else whether loadClass yields a class handle.
isClassAvailable ==
    /\ MayCall
    /\ \E className \in UserClassNames, envAttached \in BOOLEAN :
         IF ~envAttached
           THEN /\ StepOf([Outcome("isClassAvailable", FALSE, NoOutcome, 0,
                                   FALSE, FALSE)
                              EXCEPT !.text = className])
                /\ UNCHANGED <<cachedClasses, cachedMethodID, cachedFieldID,
                               globalRefs, excPending, d, privs, localRefs,
                               unsafeCall>>
           ELSE \E lc \in {loadClass(Env, className)} :
                  /\ SetEnv(lc.env)
                  /\ StepOf([Outcome("isClassAvailable", TRUE, NoOutcome,
                                     IF lc.clazz # NullRef THEN 1 ELSE 0,
                                     FALSE, FALSE)
                                 EXCEPT !.text = className,
                                        !.found = lc.clazz # NullRef])
                  /\ UNCHANGED d

\* The application runs after the library is loaded: the class loader is set.
InitJni ==
    /\ cachedClasses = <<>>
    /\ cachedClassesLock = Unlocked
    /\ cachedMethodID = <<>>
    /\ cachedMethodIDLock = Unlocked
    /\ cachedFieldID = <<>>
    /\ cachedFieldIDLock = Unlocked
    /\ classLoaderSet = TRUE
    /\ globalRefs = << [obj |-> ClassObj(ClsDot), deleted |-> 0],
                      [obj |-> AppObject, deleted |-> 0] >>
    /\ excPending = [t \in Threads |-> FALSE]
    /\ pc = [t \in Threads |-> "idle"]
    /\ op = [t \in Threads |-> NoOp]
    /\ clazz = [t \in Threads |-> NullRef]
    /\ retID = [t \in Threads |-> NullID]
    /\ resolved = EmptyBag
    /\ loaderCalls = EmptyBag
    /\ nOps = 0
    /\ d = [w \in Wrappers |-> NoPriv]
    /\ privs = <<>>
    /\ localRefs = << [obj |-> AppObject, deleted |-> 0] >>
    /\ unsafeCall = FALSE
    /\ last = NoLast
    /\ platformContext = QPlatformOpenGLContext(NoContext)

NextJni ==
    \/ \E w \in Wrappers :
        \/ DefaultConstruct(w)
        \/ ConstructByName(w)
        \/ ConstructByClass(w)
        \/ ConstructFromObject(w)
        \/ FromLocalRef(w)
        \/ FromString(w)
        \/ toString(w)
        \/ Copy(w)
        \/ Destroy(w)
        \/ Assign(w)
        \/ Equals(w)
        \/ InstanceCall(w)
    \/ StaticCallByName
    \/ StaticCallByClass
    \/ isClassAvailable

SpecJni == InitJni /\ [][NextJni]_vars

\* ------------------------------------- a wrapper by class name, re-assigned

\* The JNI state of the application's thread at start, when the application
\* also holds a global reference to an object of another class.
InitEnv ==
    [exc |-> FALSE, unsafe |-> FALSE,
     refs |-> << [obj |-> ClassObj(ClsDot), deleted |-> 0],
                 [obj |-> AppObject, deleted |-> 0],
                 [obj |-> OtherObject, deleted |-> 0] >>,
     classes |-> <<>>, mids |-> <<>>, fids |-> <<>>, privs |-> <<>>,
     locals |-> << [obj |-> AppObject, deleted |-> 0] >>]

\* The state after QJniObject w1(className) or QJniObject w1(className,
\* signature, ...) of a class that exists; the operations counted are those
\* that follow.
InitRebind ==
    /\ classLoaderSet = TRUE
    /\ cachedClassesLock = Unlocked
    /\ cachedMethodIDLock = Unlocked
    /\ cachedFieldIDLock = Unlocked
    /\ pc = [t \in Threads |-> "idle"]
    /\ op = [t \in Threads |-> NoOp]
    /\ clazz = [t \in Threads |-> NullRef]
    /\ retID = [t \in Threads |-> NullID]
    /\ resolved = EmptyBag
    /\ loaderCalls = EmptyBag
    /\ nOps = 0
    /\ platformContext = QPlatformOpenGLContext(NoContext)
    /\ d = [w \in Wrappers |-> IF w = "w1" THEN 1 ELSE NoPriv]
    /\ \E className \in {ClsSlash, ClsDot}, sig \in CtorSigs :
         \E c \in {CtorByName(InitEnv, className, sig)} :
           \E raises \in Raises(c.id) :
             \E r \in {NewObject(c.env, c.priv, c.id, raises)} :
               \E e \in {AddPrivate(r.env, r.priv)} :
                 /\ excPending = [t \in Threads |-> e.exc]
                 /\ unsafeCall = e.unsafe
                 /\ globalRefs = e.refs
                 /\ cachedClasses = e.classes
                 /\ cachedMethodID = e.mids
                 /\ cachedFieldID = e.fids
                 /\ privs = e.privs
                 /\ localRefs = e.locals
                 /\ last = [Outcome("QJniObject(className)", c.id # NullID,
                                    Threw(raises), 0, r.priv.m_jobject # NullRef,
                                    FALSE)
                                EXCEPT !.w = "w1", !.text = className]

NextRebind ==
    \E w \in Wrappers :
        \/ Assign(w)
        \/ InstanceCall(w)

SpecRebind == InitRebind /\ [][NextRebind]_vars


\* ------------------------------------------- the platform OpenGL context

\* virtual bool isSharing() const { return false; }
\* virtual bool isValid() const { return true; }
isSharingWhenCurrent(c) == c.current # NoSurface
isSharing(c) == FALSE
QPlatformOpenGLContext_isValid(c) == TRUE

\* The wrappers and caches of the JNI side, which the context does not touch.
jniVars == <<cacheVars, classLoaderSet, globalRefs, excPending, threadVars,
             histVars, objVars>>

\* virtual bool makeCurrent(QPlatformSurface *surface) = 0: a backend makes the
\* context current on the surface, or fails, and then may have released it.
makeCurrent ==
    /\ \E surface \in Surfaces, ok \in BOOLEAN :
         \E current \in IF ok THEN {surface}
                        ELSE {platformContext.current, NoSurface} :
           platformContext' = [platformContext EXCEPT !.current = current,
                                                      !.made = ok]
    /\ UNCHANGED jniVars

\* virtual void doneCurrent() = 0.
doneCurrent ==
    /\ platformContext' = [platformContext EXCEPT !.current = NoSurface]
    /\ UNCHANGED jniVars

\* virtual void swapBuffers(QPlatformSurface *surface) = 0.
swapBuffers ==
    /\ platformContext.frames < MaxFrames
    /\ \E surface \in Surfaces :
         platformContext' = [platformContext EXCEPT !.frames = @ + 1]
    /\ UNCHANGED jniVars

\* A platform context after its construction, with the context set for it or
\* not yet.
InitGL ==
    /\ cachedClasses = <<>>
    /\ cachedClassesLock = Unlocked
    /\ cachedMethodID = <<>>
    /\ cachedMethodIDLock = Unlocked
    /\ cachedFieldID = <<>>
    /\ cachedFieldIDLock = Unlocked
    /\ classLoaderSet = TRUE
    /\ globalRefs = << [obj |-> ClassObj(ClsDot), deleted |-> 0],
                      [obj |-> AppObject, deleted |-> 0] >>
    /\ excPending = [t \in Threads |-> FALSE]
    /\ pc = [t \in Threads |-> "idle"]
    /\ op = [t \in Threads |-> NoOp]
    /\ clazz = [t \in Threads |-> NullRef]
    /\ retID = [t \in Threads |-> NullID]
    /\ resolved = EmptyBag
    /\ loaderCalls = EmptyBag
    /\ nOps = 0
    /\ d = [w \in Wrappers |-> NoPriv]
    /\ privs = <<>>
    /\ localRefs = << [obj |-> AppObject, deleted |-> 0] >>
    /\ unsafeCall = FALSE
    /\ last = NoLast
    /\ \E context \in Contexts :
         platformContext = QPlatformOpenGLContext(context)

NextGL ==
    \/ makeCurrent
    \/ doneCurrent
    \/ swapBuffers

SpecGL == InitGL /\ [][NextGL]_vars


\* ------------------------------------------------------------------ claims

\* A thread has finished a member lookup that went through a cache.
CachedLookupDone(t) ==
    /\ pc[t] = "done"
    /\ op[t].member # "none"
    /\ clazz[t] # NullRef
    /\ ~BypassCache(op[t])

\* A thread has finished a class lookup that ran loadClass.
LoadClassDone(t) == pc[t] = "done" /\ op[t].stage \in {"lc", "lc_noloader"}

\* How often Get(Static)(Method|Field)ID was called for a Java member.
ResolutionsOfMember(kind, cls, name, sig) ==
    LET es == {e \in BagToSet(resolved) :
                 e.kind = kind /\ e.cls = cls /\ e.name = name /\ e.sig = sig}
    IN  BagCardinality([e \in es |-> resolved[e]])

\* How often it was called on behalf of a cache key.
ResolutionsOfKey(kind, key) ==
    LET es == {e \in BagToSet(resolved) : e.kind = kind /\ e.key = key}
    IN  BagCardinality([e \in es |-> resolved[e]])

\* C1 as stated: for every (class, member, signature), whichever operations look
\* it up, the resolution routine runs at most once.
C1_OncePerMember ==
    \A e \in BagToSet(resolved) :
        ResolutionsOfMember(e.kind, e.cls, e.name, e.sig) <= 1

\* C1 amended: for every key a lookup presents to a member cache (a non-empty
\* class name as the operation passes it, the member name, the signature), the
\* resolution routine runs at most once, and every finished lookup with that key
\* returns the cached handle, a cached not-found included.
C1_OncePerCacheKey ==
    /\ \A e \in BagToSet(resolved) :
          e.key # NullName => ResolutionsOfKey(e.kind, e.key) = 1
    /\ \A t \in Threads :
          CachedLookupDone(t)
            => /\ Contains(MemberCache(op[t].member), MemberKey(op[t]))
               /\ retID[t] = MemberCache(op[t].member)[MemberKey(op[t])]
               /\ ResolutionsOfKey(op[t].member, MemberKey(op[t])) = 1

\* Two threads have looked the same missing member up through the cache, and
\* the one resolution gave both the cached not-found.
C1_Witness ==
    /\ \A t \in Threads : CachedLookupDone(t) /\ retID[t] = NullID
    /\ op["t1"].member = op["t2"].member
    /\ MemberKey(op["t1"]) = MemberKey(op["t2"])
    /\ ResolutionsOfKey(op["t1"].member, MemberKey(op["t1"])) = 1

\* C2 as stated: a loadClass that returned null has cached the null, after
\* exactly one call of the class loader.
C2_FailureAlwaysCached ==
    \A t \in Threads :
        LoadClassDone(t) /\ clazz[t] = NullRef
          => /\ Contains(cachedClasses, op[t].bin)
             /\ cachedClasses[op[t].bin] = NullRef
             /\ CopiesIn(op[t].bin, loaderCalls) = 1

\* C2 amended: a loadClass that returned null either found no class loader set
\* (then it cached nothing and called nothing), or the null is cached after
\* exactly one call of the class loader; the class loader is never called twice
\* for a name; and while a null is cached for a name every lookup of it returns
\* null.
C2_FailureCachedWithLoader ==
    /\ \A t \in Threads :
          LoadClassDone(t) /\ clazz[t] = NullRef /\ op[t].stage # "lc_noloader"
            => /\ Contains(cachedClasses, op[t].bin)
               /\ cachedClasses[op[t].bin] = NullRef
               /\ CopiesIn(op[t].bin, loaderCalls) = 1
    /\ \A bin \in BagToSet(loaderCalls) :
          CopiesIn(bin, loaderCalls) = 1 /\ Contains(cachedClasses, bin)
    /\ \A t \in Threads :
          /\ pc[t] = "done"
          /\ op[t].stage # "none"
          /\ Contains(cachedClasses, op[t].bin)
          /\ cachedClasses[op[t].bin] = NullRef
          => clazz[t] = NullRef

\* Both threads have looked the missing class up with the class loader set, both
\* got null, and the class loader was called once.
C2_Witness ==
    /\ classLoaderSet
    /\ \A t \in Threads :
          /\ pc[t] = "done"
          /\ op[t].api = "loadClass"
          /\ op[t].stage = "lc"
          /\ op[t].bin = ClsNone
          /\ clazz[t] = NullRef
    /\ CopiesIn(ClsNone, loaderCalls) = 1

\* Every entry of the hash is still there, with the same value.
Preserved(hash, hashNext) ==
    \A k \in DOMAIN hash : k \in DOMAIN hashNext /\ hashNext[k] = hash[k]

\* C3: no step overwrites or removes an entry of the class cache, the method-ID
\* cache or the field-ID cache.
C3_EntriesNeverChange ==
    [][/\ Preserved(cachedClasses, cachedClasses')
       /\ Preserved(cachedMethodID, cachedMethodID')
       /\ Preserved(cachedFieldID, cachedFieldID')]_vars

\* Both threads hold the handle of the same class, the one the cache holds, and
\* a member cache holds an entry too.
C3_Witness ==
    /\ \A t \in Threads :
          /\ pc[t] = "done"
          /\ op[t].bin = ClsDot
          /\ clazz[t] # NullRef
          /\ clazz[t] = cachedClasses[ClsDot]
    /\ DOMAIN cachedMethodID # {}

\* The exception state of the thread that uses the wrappers.
Pending == excPending[JniThread]

\* C4: after a primitive-typed or void call, or a primitive field access, whose
\* JNI call raised an exception, no exception is pending and the result is 0,
\* whatever value the JNI call returned.
C4_PrimitiveSentinel ==
    (last.funnel \in {"primitive", "void"} /\ last.raised)
        => (~Pending /\ last.result = 0)

\* A primitive call raised while the JNI function returned a non-zero value.
C4_Witness ==
    /\ last.funnel = "primitive"
    /\ last.raised
    /\ last.returned = 1
    /\ last.result = 0
    /\ ~Pending

\* C5: after an object-returning operation whose JNI call raised an exception, no
\* exception is pending and the wrapper returned is invalid, whether the JNI call
\* returned null or a reference.
C5_ObjectSentinel ==
    (last.funnel \in {"clean", "objectV", "fromString"} /\ last.raised)
        => (~Pending /\ ~last.valid)

\* An object-returning operation raised and returned null, and the exception is
\* still pending when the operation has returned.
C5_Witness ==
    /\ last.funnel = "clean"
    /\ last.raised
    /\ last.returned = 0
    /\ Pending

\* C6: a constructor given a class name or a jclass whose Java constructor raised
\* yields an invalid wrapper and leaves no exception pending.
C6_ConstructorSentinel ==
    (last.funnel \in {"QJniObject(className)", "QJniObject(jclass)"}
        /\ last.raised)
        => (~Pending /\ ~last.valid)

\* The Java constructor raised, and the exception is still pending when the
\* wrapper is constructed.
C6_Witness ==
    /\ last.funnel \in {"QJniObject(className)", "QJniObject(jclass)"}
    /\ last.raised
    /\ ~last.valid
    /\ Pending

\* C7: no JNI function other than the exception check is called while an
\* exception raised by an earlier call is pending.
C7_NoCallWhilePending == ~unsafeCall

\* An operation that follows one which left its exception pending has made a JNI
\* call.
C7_Witness == unsafeCall /\ nOps = MaxCalls

\* The wrappers that share the private i.
Owners(i) == {w \in Wrappers : d[w] = i}

\* How often the global reference ref was deleted.
Deleted(ref) == globalRefs[ref].deleted

\* C8: the global object reference created for a wrapper is deleted at most once,
\* and exactly once when no wrapper shares it any more.
C8_ObjectRefDeletedOnce ==
    \A i \in DOMAIN privs :
        privs[i].m_jobject # NullRef
            => /\ Deleted(privs[i].m_jobject) <= 1
               /\ (Owners(i) = {}) => (Deleted(privs[i].m_jobject) = 1)

\* The last wrapper sharing a valid binding has been destroyed.
C8_Witness ==
    /\ last.funnel = "~QJniObject"
    /\ ~last.shared
    /\ \A w \in Wrappers : d[w] = NoPriv
    /\ \E i \in DOMAIN privs :
          privs[i].m_jobject # NullRef /\ Deleted(privs[i].m_jobject) = 1

\* C9: the object reference of a live valid wrapper has not been deleted.
C9_LiveWrapperHoldsLiveRef ==
    \A w \in Wrappers : isValid(w) => Deleted(Priv(w).m_jobject) = 0

\* One copy of a valid wrapper was destroyed or re-assigned while another copy
\* lives on.
C9_Witness ==
    /\ last.funnel \in {"~QJniObject", "assign"}
    /\ last.shared
    /\ \E w \in Wrappers : isValid(w) /\ Deleted(Priv(w).m_jobject) = 0

\* C10: every non-null handle in the class cache is a global reference that has
\* not been deleted.
C10_CachedClassesLive ==
    \A bin \in DOMAIN cachedClasses :
        cachedClasses[bin] # NullRef => Deleted(cachedClasses[bin]) = 0

\* A valid wrapper constructed from a class name has been destroyed, and the
\* class handle it used is still in the cache.
C10_Witness ==
    /\ last.funnel = "~QJniObject"
    /\ ~last.shared
    /\ \E i \in DOMAIN privs :
          /\ Owners(i) = {}
          /\ privs[i].m_className # NullName
          /\ privs[i].m_jobject # NullRef
          /\ Deleted(privs[i].m_jobject) = 1
          /\ Contains(cachedClasses, privs[i].m_className)
          /\ cachedClasses[privs[i].m_className] = privs[i].m_jclass

\* C11: a wrapper manages only the references it created itself. The class
\* handle and the object reference the application passes to the constructors
\* and to the assignment are never deleted, whatever is constructed from them,
\* re-assigned or destroyed; and no QJniObjectPrivate holds them.
C11_CallerRefsUntouched ==
    /\ Deleted(AppClassRef) = 0
    /\ Deleted(AppObjectRef) = 0
    /\ \A i \in DOMAIN privs :
         /\ privs[i].m_jobject # AppObjectRef
         /\ privs[i].m_jclass # AppClassRef

\* Wrappers were built from the application's class handle and from its object
\* reference, and both were destroyed with the references they had made.
C11_Witness ==
    /\ \A w \in Wrappers : d[w] = NoPriv
    /\ \E i, j \in DOMAIN privs :
         /\ privs[i].m_jobject # NullRef
         /\ globalRefs[privs[i].m_jobject].obj = AppObject
         /\ Deleted(privs[i].m_jobject) = 1
         /\ privs[j].m_jobject # NullRef
         /\ globalRefs[privs[j].m_jobject].obj[1] = "object"
         /\ globalRefs[privs[j].m_jobject].obj[3][1] = "new"
         /\ privs[j].m_className = NullName
         /\ Deleted(privs[j].m_jclass) = 1
    /\ Deleted(AppClassRef) = 0
    /\ Deleted(AppObjectRef) = 0

\* C12: fromLocalRef(localRef) takes ownership of the local reference. When it
\* has returned, a non-null localRef has been deleted exactly once and the
\* wrapper returned holds a live global reference of its own to the object
\* localRef named; for a null localRef the wrapper is invalid. No local
\* reference is ever deleted twice.
C12_FromLocalRefOwns ==
    /\ \A l \in DOMAIN localRefs : localRefs[l].deleted <= 1
    /\ last.funnel = "fromLocalRef" =>
         IF last.ref = NullRef
           THEN ~isValid(last.w)
           ELSE /\ localRefs[last.ref].deleted = 1
                /\ isValid(last.w)
                /\ Deleted(Priv(last.w).m_jobject) = 0
                /\ globalRefs[Priv(last.w).m_jobject].obj = localRefs[last.ref].obj

\* fromLocalRef was given the application's local reference.
C12_Witness ==
    /\ last.funnel = "fromLocalRef"
    /\ last.ref = AppLocalRef
    /\ isValid(last.w)
    /\ localRefs[AppLocalRef].deleted = 1

\* The step is an assignment to the wrapper w of the reference ref.
AssignStep(w, ref) ==
    /\ nOps' = nOps + 1
    /\ last'.funnel = "assign"
    /\ last'.w = w
    /\ last'.ref = ref

\* C13: re-assigning a wrapper to the object it already holds is a no-op. When
\* the reference assigned names the object the wrapper holds (or both are
\* null), no global reference is created or deleted, no QJniObjectPrivate is
\* created or changed, and every wrapper shares the private it shared before.
C13_SameObjectNoOp ==
    [][\A w \in Wrappers, ref \in DOMAIN globalRefs \cup {NullRef} :
         (AssignStep(w, ref) /\ JavaObject(Priv(w).m_jobject) = JavaObject(ref))
             => (globalRefs' = globalRefs /\ privs' = privs /\ d' = d)]_vars

\* A wrapper was assigned another reference to the object it holds.
C13_Witness ==
    /\ last.funnel = "assign"
    /\ isValid(last.w)
    /\ last.ref # NullRef
    /\ last.ref # Priv(last.w).m_jobject
    /\ JavaObject(last.ref) = JavaObject(Priv(last.w).m_jobject)
    /\ Len(privs) = 1

\* C14: re-assigning a wrapper to a different object releases the old binding
\* and binds the new one. After the assignment the wrapper has a private of
\* its own; it is empty when null was assigned, and otherwise holds a live
\* global reference, other than the caller's, to the object assigned. The
\* wrapper no longer shares the old private, whose object reference has been
\* deleted unless a copy of the wrapper still holds it.
C14_AssignRebinds ==
    [][\A w \in Wrappers, ref \in DOMAIN globalRefs \cup {NullRef} :
         (AssignStep(w, ref) /\ JavaObject(Priv(w).m_jobject) # JavaObject(ref))
             => /\ d'[w] # d[w]
                /\ \A v \in Wrappers \ {w} : d'[v] = d[v] /\ d'[v] # d'[w]
                /\ IF ref = NullRef
                     THEN privs'[d'[w]].m_jobject = NullRef
                     ELSE /\ privs'[d'[w]].m_jobject \notin {NullRef, ref}
                          /\ globalRefs'[privs'[d'[w]].m_jobject] =
                                 [obj |-> JavaObject(ref), deleted |-> 0]
                /\ Priv(w).m_jobject # NullRef =>
                     globalRefs'[Priv(w).m_jobject].deleted =
                         IF Owners(d[w]) = {w} THEN 1 ELSE 0]_vars

\* A wrapper that held an object alone was assigned another object.
C14_Witness ==
    /\ last.funnel = "assign"
    /\ ~last.shared
    /\ isValid(last.w)
    /\ d[last.w] = 2
    /\ privs[1].m_jobject # NullRef
    /\ Deleted(privs[1].m_jobject) = 1
    /\ JavaObject(privs[1].m_jobject) # JavaObject(Priv(last.w).m_jobject)

\* The constructors that look a class and a constructor up.
LookupCtors == {"QJniObject(className)", "QJniObject(jclass)"}

\* The step constructs the wrapper w from a class: the constructor is found,
\* NewObject is called with no exception pending and the constructor returns.
ConstructsObject(w) ==
    /\ nOps' = nOps + 1
    /\ last'.funnel \in LookupCtors
    /\ last'.w = w
    /\ last'.found
    /\ ~last'.raised
    /\ ~Pending

\* C15: isValid() is true exactly when the wrapper holds a Java object. A
\* default-constructed wrapper, a wrapper constructed from a null reference and
\* a wrapper whose class or constructor could not be resolved are invalid, a
\* valid wrapper holds a live reference to a Java object, a wrapper constructed
\* from an object or whose construction produced one is valid, and a valid
\* wrapper stays valid until it is destroyed or null is assigned to it.
C15_ValidIffObject ==
    /\ [](/\ last.funnel = "QJniObject()" => ~isValid(last.w)
          /\ last.funnel \in {"QJniObject(jobject)", "fromLocalRef"} =>
                (isValid(last.w) <=> last.ref # NullRef)
          /\ last.funnel \in LookupCtors =>
                (isValid(last.w) => (last.found /\ ~last.raised))
          /\ \A w \in Wrappers :
                isValid(w) => /\ Deleted(Priv(w).m_jobject) = 0
                              /\ JavaObject(Priv(w).m_jobject)[1] = "object")
    /\ [][\A w \in Wrappers :
            /\ ConstructsObject(w) => isValid(w)'
            /\ (isValid(w) /\ ~isValid(w)') =>
                   (d'[w] = NoPriv \/ AssignStep(w, NullRef))]_vars

\* A wrapper was constructed from the name of a class that does not exist.
C15_Witness ==
    /\ last.funnel = "QJniObject(className)"
    /\ last.text = ClsNone
    /\ ~last.found
    /\ d[last.w] # NoPriv
    /\ ~isValid(last.w)

\* The wrappers w and v reference the same Java object, or both are null.
SameJavaObject(w, v) ==
    JavaObject(Priv(w).m_jobject) = JavaObject(Priv(v).m_jobject)

\* C16: two wrappers compare equal exactly when both reference the same Java
\* object or both are null. The comparison just made answered so; and among the
\* wrappers that exist the relation is symmetric, a copy equals its original,
\* two empty wrappers are equal and an empty and a bound wrapper are not.
C16_EqualIffSameObject ==
    /\ last.funnel = "operator==" =>
         ((last.result = 1) <=> SameJavaObject(last.w, last.v))
    /\ \A w, v \in {u \in Wrappers : d[u] # NoPriv} :
         /\ isSameObject(w, v) <=> isSameObject(v, w)
         /\ d[w] = d[v] => isSameObject(w, v)
         /\ (~isValid(w) /\ ~isValid(v)) => isSameObject(w, v)
         /\ (isValid(w) /\ ~isValid(v)) => ~isSameObject(w, v)

\* Two wrappers built from the same object, each with a global reference of its
\* own, were compared and found equal.
C16_Witness ==
    /\ last.funnel = "operator=="
    /\ last.result = 1
    /\ isValid(last.w)
    /\ isValid(last.v)
    /\ d[last.w] # d[last.v]
    /\ Priv(last.w).m_jobject # Priv(last.v).m_jobject

\* The operations that look a member up and then invoke or access it.
CallFunnels == {"primitive", "void", "clean", "objectV"}

\* The step is an operation whose class or member could not be resolved.
ResolutionFails ==
    /\ nOps' = nOps + 1
    /\ last'.funnel \in CallFunnels \cup LookupCtors
    /\ ~last'.found

\* An operation given a class or a member that cannot be resolved makes no
\* method invocation, field access or NewObject, returns 0 and no valid wrapper,
\* leaves no exception pending that was not pending before it, and leaves every
\* existing wrapper with the private it had, the private unchanged and its
\* object reference live.
ResolutionFailureIsQuiet ==
    [][ResolutionFails =>
         /\ ~last'.called
         /\ last'.result = 0
         /\ ~last'.valid
         /\ excPending'[JniThread] => Pending
         /\ \A w \in Wrappers :
              d[w] # NoPriv =>
                  /\ d'[w] = d[w]
                  /\ privs'[d[w]] = privs[d[w]]
                  /\ isValid(w) => globalRefs'[Priv(w).m_jobject].deleted = 0
         /\ \A w \in Wrappers :
              (d[w] = NoPriv /\ d'[w] # NoPriv) =>
                  privs'[d'[w]].m_jobject = NullRef]_vars

\* C17: every wrapper operation returns normally in every failure case. An
\* operation whose class or member cannot be resolved is quiet as above, and
\* toString(), whose Java call is not resolved, throws or returns null, returns
\* its sentinel, the empty string.
C17_FailureReturnsSentinel ==
    /\ []((last.funnel = "toString" /\ ~last.valid) => last.text = NullName)
    /\ ResolutionFailureIsQuiet

\* A member lookup failed, the failure is in the method-ID cache, and nothing
\* was invoked and no exception is pending.
C17_Witness ==
    /\ last.funnel \in CallFunnels
    /\ ~last.found
    /\ ~last.called
    /\ ~Pending
    /\ \E k \in DOMAIN cachedMethodID : cachedMethodID[k] = NullID

\* One counted operation of the given kind has just run.
Ran(funnel) == nOps' = nOps + 1 /\ last'.funnel = funnel

\* The characters of the Java string a valid wrapper holds, before the step.
HeldString(w) == CharsOf(JavaObject(Priv(w).m_jobject))
HoldsString(w) == isValid(w) /\ JavaObject(Priv(w).m_jobject)[2] = ClsString

\* C18: string marshalling round-trips when fromString succeeds. A fromString(s)
\* that returns a valid wrapper leaves it holding a Java string whose characters
\* are s; toString() on a valid wrapper of a Java string, once String.toString
\* is resolved, returns exactly the characters of that string; and toString()
\* on an invalid wrapper returns the empty string, looks nothing up and leaves
\* the references, the caches and the pending exception as they were.
C18_RoundTripWhenValid ==
    [][/\ (Ran("fromString") /\ last'.valid)
            => /\ d'[last'.w] # NoPriv
               /\ privs'[d'[last'.w]].m_jobject # NullRef
               /\ globalRefs'[privs'[d'[last'.w]].m_jobject].obj
                      = <<"object", ClsString,
                          <<"string", last'.text, Len(globalRefs)>>>>
               /\ ~excPending'[JniThread]
       /\ (Ran("toString") /\ HoldsString(last'.w) /\ last'.found)
            => /\ last'.text = HeldString(last'.w)
               /\ last'.valid
       /\ (Ran("toString") /\ ~isValid(last'.w))
            => /\ last'.text = NullName
               /\ ~last'.called
               /\ UNCHANGED <<cachedClasses, cachedMethodID, cachedFieldID,
                              globalRefs, localRefs, excPending, unsafeCall,
                              privs, d>>]_vars

\* C18 as stated: whatever fromString(s) returned, toString() called on it next
\* returns s.
C18_RoundTripAlways ==
    [][(last.funnel = "fromString" /\ Ran("toString") /\ last'.w = last.w)
          => last'.text = last.text]_vars

C18_Witness ==
    /\ last.funnel = "toString"
    /\ HoldsString(last.w)
    /\ last.found
    /\ last.text = <<"h", "i">>

\* C19: isClassAvailable(className) returns true exactly when the Java class
\* className exists and a JNI environment is available, returns false without
\* an environment, and agrees with construction: after it returned false with
\* an environment, constructing a wrapper from the same class name next yields
\* an invalid wrapper.
C19_AvailableIffClassExists ==
    /\ [](last.funnel = "isClassAvailable"
            => (last.result = 1
                  <=> (last.called
                       /\ toBinaryEncClassName(last.text) \in JavaClasses)))
    /\ [][(/\ last.funnel = "isClassAvailable"
           /\ last.called
           /\ last.result = 0
           /\ Ran("QJniObject(className)")
           /\ toBinaryEncClassName(last'.text) = toBinaryEncClassName(last.text))
             => ~last'.valid]_vars

\* isClassAvailable returned true and the class handle is in the class cache.
C19_Witness ==
    /\ last.funnel = "isClassAvailable"
    /\ last.result = 1
    /\ Contains(cachedClasses, toBinaryEncClassName(last.text))
    /\ cachedClasses[toBinaryEncClassName(last.text)] # NullRef

\* Where a thread reads a cache map (constFind under the read locker) and where
\* it inserts into one (the lookup and insert under the write locker).
ReadsClasses(t) == pc[t] = "gcc_find"
InsertsClass(t) == pc[t] \in {"lc_load", "fc_find"}
ReadsMembers(t, kind) == pc[t] = "mem_find" /\ op[t].member = kind
InsertsMember(t, kind) == pc[t] = "mem_resolve" /\ op[t].member = kind
MemberKinds == {"method", "field"}

\* The step is taken by thread t.
StepBy(t) == pc'[t] # pc[t]

\* C20: the caches obey a shared/exclusive lock discipline in every
\* interleaving. A thread reading a cache map holds the cache's lock for
\* reading, a thread inserting holds it for writing; while one thread inserts
\* into a cache no other thread inserts into it or reads it; and a cache
\* changes only in a step of the thread that holds its write lock.
C20_LockDiscipline ==
    /\ [](/\ \A t \in Threads :
               /\ ReadsClasses(t) => t \in cachedClassesLock.readers
               /\ InsertsClass(t) => cachedClassesLock.writer = t
               /\ \A kind \in MemberKinds :
                    /\ ReadsMembers(t, kind) => t \in MemberLock(kind).readers
                    /\ InsertsMember(t, kind) => MemberLock(kind).writer = t
          /\ \A t \in Threads :
             \A u \in Threads \ {t} :
               /\ InsertsClass(t) => ~InsertsClass(u) /\ ~ReadsClasses(u)
               /\ \A kind \in MemberKinds :
                    InsertsMember(t, kind)
                      => ~InsertsMember(u, kind) /\ ~ReadsMembers(u, kind))
    /\ [][/\ cachedClasses' # cachedClasses
               => \E t \in Threads :
                    cachedClassesLock.writer = t /\ InsertsClass(t) /\ StepBy(t)
          /\ \A kind \in MemberKinds :
               MemberCache(kind)' # MemberCache(kind)
                 => \E t \in Threads :
                      /\ MemberLock(kind).writer = t
                      /\ InsertsMember(t, kind)
                      /\ StepBy(t)]_vars

\* One thread is inserting into the class cache under the write lock while the
\* other waits for that lock.
C20_Witness ==
    \E t \in Threads :
      \E u \in Threads \ {t} :
        /\ InsertsClass(t)
        /\ cachedClassesLock.writer = t
        /\ pc[u] \in {"gcc_lock", "lc_wlock", "fc_wlock"}

\* ------------------------------------------- the overloads without signature

\* The JNI types a typed overload exists for.
PrimitiveTypes ==
    {"jboolean", "jbyte", "jchar", "jshort", "jint", "jlong", "jfloat", "jdouble"}
ObjectTypes ==
    {"jobject", "jclass", "jstring", "jthrowable", "jobjectArray",
     "jbooleanArray", "jbyteArray", "jcharArray", "jshortArray", "jintArray",
     "jlongArray", "jfloatArray", "jdoubleArray"}
VoidType == "void"

\* The signature of each type, as the tables of the class documentation (JNI
\* Types) list it.
Descriptor(T) ==
    CASE T = "jobject" -> <<"L", "j", "a", "v", "a", "/", "l", "a", "n", "g", "/", "O", "b", "j", "e", "c", "t", ";">>
      [] T = "jclass" -> <<"L", "j", "a", "v", "a", "/", "l", "a", "n", "g", "/", "C", "l", "a", "s", "s", ";">>
      [] T = "jstring" -> <<"L", "j", "a", "v", "a", "/", "l", "a", "n", "g", "/", "S", "t", "r", "i", "n", "g", ";">>
      [] T = "jthrowable" -> <<"L", "j", "a", "v", "a", "/", "l", "a", "n", "g", "/", "T", "h", "r", "o", "w", "a", "b", "l", "e", ";">>
      [] T = "jobjectArray" -> <<"[", "L", "j", "a", "v", "a", "/", "l", "a", "n", "g", "/", "O", "b", "j", "e", "c", "t", ";">>
      [] T = "jbooleanArray" -> <<"[", "Z">>
      [] T = "jbyteArray" -> <<"[", "B">>
      [] T = "jcharArray" -> <<"[", "C">>
      [] T = "jshortArray" -> <<"[", "S">>
      [] T = "jintArray" -> <<"[", "I">>
      [] T = "jlongArray" -> <<"[", "J">>
      [] T = "jfloatArray" -> <<"[", "F">>
      [] T = "jdoubleArray" -> <<"[", "D">>
      [] T = "jboolean" -> <<"Z">>
      [] T = "jbyte" -> <<"B">>
      [] T = "jchar" -> <<"C">>
      [] T = "jshort" -> <<"S">>
      [] T = "jint" -> <<"I">>
      [] T = "jlong" -> <<"J">>
      [] T = "jfloat" -> <<"F">>
      [] T = "jdouble" -> <<"D">>
      [] T = "void" -> <<"V">>

\* The signature the overloads of callMethod, callStaticMethod and
\* callObjectMethod, callStaticObjectMethod that take none pass on:
\* DECLARE_JNI_METHODS, DECLARE_JNI_OBJECT_METHODS and the <void> overloads.
MethodSignatureInt(T) == <<"(", ")", "I">>
MethodSignature(T) ==
    CASE T = "jboolean" -> <<"(", ")", "Z">>
      [] T = "jbyte" -> <<"(", ")", "B">>
      [] T = "jchar" -> <<"(", ")", "C">>
      [] T = "jshort" -> <<"(", ")", "S">>
      [] T = "jint" -> <<"(", ")", "I">>
      [] T = "jlong" -> <<"(", ")", "J">>
      [] T = "jfloat" -> <<"(", ")", "F">>
      [] T = "jdouble" -> <<"(", ")", "D">>
      [] T = "jobject" -> <<"(", ")", "L", "j", "a", "v", "a", "/", "l", "a", "n", "g", "/", "O", "b", "j", "e", "c", "t", ";">>
      [] T = "jclass" -> <<"(", ")", "L", "j", "a", "v", "a", "/", "l", "a", "n", "g", "/", "C", "l", "a", "s", "s", ";">>
      [] T = "jstring" -> <<"(", ")", "L", "j", "a", "v", "a", "/", "l", "a", "n", "g", "/", "S", "t", "r", "i", "n", "g", ";">>
      [] T = "jobjectArray" -> <<"(", ")", "[", "L", "j", "a", "v", "a", "/", "l", "a", "n", "g", "/", "O", "b", "j", "e", "c", "t", ";">>
      [] T = "jbooleanArray" -> <<"(", ")", "[", "Z">>
      [] T = "jbyteArray" -> <<"(", ")", "[", "B">>
      [] T = "jshortArray" -> <<"(", ")", "[", "S">>
      [] T = "jintArray" -> <<"(", ")", "[", "I">>
      [] T = "jlongArray" -> <<"(", ")", "[", "J">>
      [] T = "jfloatArray" -> <<"(", ")", "[", "F">>
      [] T = "jdoubleArray" -> <<"(", ")", "[", "D">>
      [] T = "jcharArray" -> <<"(", ")", "[", "C">>
      [] T = "jthrowable" -> <<"(", ")", "L", "j", "a", "v", "a", "/", "l", "a", "n", "g", "/", "T", "h", "r", "o", "w", "a", "b", "l", "e", ";">>
      [] T = "void" -> <<"(", ")", "V">>

\* The signature the field accessors pass on: DECLARE_JNI_PRIMITIVE_FIELDS and
\* DECLARE_JNI_OBJECT_FILEDS.
FieldSignature(T) ==
    CASE T = "jboolean" -> <<"Z">>
      [] T = "jbyte" -> <<"B">>
      [] T = "jchar" -> <<"C">>
      [] T = "jshort" -> <<"S">>
      [] T = "jint" -> <<"I">>
      [] T = "jlong" -> <<"J">>
      [] T = "jfloat" -> <<"F">>
      [] T = "jdouble" -> <<"D">>
      [] T = "jobject" -> <<"L", "j", "a", "v", "a", "/", "l", "a", "n", "g", "/", "O", "b", "j", "e", "c", "t", ";">>
      [] T = "jobjectArray" -> <<"[", "L", "j", "a", "v", "a", "/", "l", "a", "n", "g", "/", "O", "b", "j", "e", "c", "t", ";">>
      [] T = "jstring" -> <<"L", "j", "a", "v", "a", "/", "l", "a", "n", "g", "/", "S", "t", "r", "i", "n", "g", ";">>
      [] T = "jclass" -> <<"L", "j", "a", "v", "a", "/", "l", "a", "n", "g", "/", "C", "l", "a", "s", "s", ";">>
      [] T = "jthrowable" -> <<"L", "j", "a", "v", "a", "/", "l", "a", "n", "g", "/", "T", "h", "r", "o", "w", "a", "b", "l", "e", ";">>
      [] T = "jbooleanArray" -> <<"[", "Z">>
      [] T = "jbyteArray" -> <<"[", "B">>
      [] T = "jcharArray" -> <<"[", "C">>
      [] T = "jshortArray" -> <<"[", "S">>
      [] T = "jintArray" -> <<"[", "I">>
      [] T = "jlongArray" -> <<"[", "J">>
      [] T = "jfloatArray" -> <<"[", "F">>
      [] T = "jdoubleArray" -> <<"[", "D">>

\* The functions each macro defines for a type.
MethodOverloads(T) ==
    IF T \in PrimitiveTypes \cup {VoidType}
      THEN {"callMethod", "callStaticMethod(className)", "callStaticMethod(jclass)"}
      ELSE {"callObjectMethod", "callStaticObjectMethod(className)",
            "callStaticObjectMethod(jclass)"}
FieldAccessors(T) ==
    IF T \in PrimitiveTypes
      THEN {"getField", "getStaticField(className)", "getStaticField(jclass)",
            "setStaticField(className)", "setStaticField(jclass)", "setField"}
      ELSE {"setField", "setStaticField(className)", "getObjectField",
            "getStaticObjectField(jclass)", "getStaticObjectField(className)"}

\* What is remembered of a typed operation: the function, the type, and the
\* signature it handed to the overload that takes one or to the ID lookup.
Typed(function, T, signature) ==
    [funnel |-> "typed", function |-> function, type |-> T, text |-> signature]

\* A call overload without signature, for the type T.
CallWithoutSignature ==
    /\ \E T \in PrimitiveTypes \cup ObjectTypes \cup {VoidType} :
         \E function \in MethodOverloads(T) :
           last' = [Typed(function, T, MethodSignature(T))
                      EXCEPT !.funnel = "typed call"]
    /\ UNCHANGED <<cacheVars, classLoaderSet, globalRefs, excPending,
                   threadVars, histVars, d, privs, localRefs, unsafeCall,
                   glVars>>

\* A field accessor for the type T.
AccessFieldOfType ==
    /\ \E T \in PrimitiveTypes \cup ObjectTypes :
         \E function \in FieldAccessors(T) :
           last' = [Typed(function, T, FieldSignature(T))
                      EXCEPT !.funnel = "typed field"]
    /\ UNCHANGED <<cacheVars, classLoaderSet, globalRefs, excPending,
                   threadVars, histVars, d, privs, localRefs, unsafeCall,
                   glVars>>

NextSig ==
    \/ CallWithoutSignature
    \/ AccessFieldOfType

SpecSig == InitJni /\ [][NextSig]_vars

\* C21: the overloads that take no signature use the signature of their type.
\* A call overload hands on "()" followed by the descriptor the JNI type tables
\* list for the type, and a field accessor the descriptor itself.
C21_SignatureOfType ==
    /\ last.funnel = "typed call"
         => last.text = <<"(", ")">> \o Descriptor(last.type)
    /\ last.funnel = "typed field" => last.text = Descriptor(last.type)

\* callObjectMethod<jstring>(name) was called and handed on
\* "()Ljava/lang/String;".
C21_Witness ==
    /\ last.funnel = "typed call"
    /\ last.function = "callObjectMethod"
    /\ last.type = "jstring"
    /\ last.text = SigToString

\* The member the finished lookup of thread t asked for exists in the class it
\* asked in, with the staticness it asked for.
AskedMemberExists(t) ==
    [cls |-> JavaClassOf(clazz[t]), name |-> op[t].name, sig |-> op[t].sig,
     static |-> op[t].static] \in JavaMembers

\* C22: a cached member handle is identified by class name, member name,
\* signature and static flag. A finished cached lookup never used an entry that
\* was resolved with the other staticness, and with no exception pending it
\* returns not-found only for a member that does not exist with the staticness
\* asked for.
C22_StaticFlagInKey ==
    \A t \in Threads :
        CachedLookupDone(t)
          => /\ \A e \in BagToSet(resolved) :
                  (e.kind = op[t].member /\ e.key = MemberKey(op[t]))
                    => e.static = op[t].static
             /\ AskedMemberExists(t) => retID[t] # NullID

\* A thread looked an instance member that exists up through the cache, and the
\* handle it returns is the member's.
C22_Witness ==
    \E t \in Threads :
        /\ CachedLookupDone(t)
        /\ ~op[t].static
        /\ AskedMemberExists(t)
        /\ retID[t] # NullID

\* A thread has finished the class lookup of its operation.
ClassLookupDone(t) ==
    /\ op[t].stage # "none"
    /\ pc[t] \in {"done", "mem_direct", "mem_rlock", "mem_find", "mem_wlock",
                  "mem_resolve"}

\* Thread t is at its second look under a write lock and finds the key stored.
LosesClassRace(t) ==
    /\ pc[t] \in {"lc_wlock", "fc_wlock"}
    /\ StepBy(t)
    /\ LostRace(cachedClasses, op[t].bin)
LosesMemberRace(t) ==
    /\ pc[t] = "mem_wlock"
    /\ StepBy(t)
    /\ LostRace(MemberCache(op[t].member), MemberKey(op[t]))

\* C23 as stated: threads that looked the same key up all return the same
\* handle.
C23_SameHandle ==
    \A t \in Threads :
      \A u \in Threads \ {t} :
        /\ (ClassLookupDone(t) /\ ClassLookupDone(u) /\ op[t].bin = op[u].bin)
              => clazz[t] = clazz[u]
        /\ (/\ CachedLookupDone(t)
            /\ CachedLookupDone(u)
            /\ op[t].member = op[u].member
            /\ MemberKey(op[t]) = MemberKey(op[u]))
              => retID[t] = retID[u]

\* C23 amended: threads that looked the same key up all return the handle
\* stored in the cache, except a class lookup that found no class loader set,
\* which returns null and stores nothing; and a thread that lost the race for
\* the write lock returns the stored value without resolving or inserting.
C23_SameHandleWithLoader ==
    /\ [](\A t \in Threads :
            /\ (ClassLookupDone(t) /\ op[t].stage # "lc_noloader")
                  => /\ Contains(cachedClasses, op[t].bin)
                     /\ clazz[t] = cachedClasses[op[t].bin]
            /\ (ClassLookupDone(t) /\ op[t].stage = "lc_noloader")
                  => clazz[t] = NullRef
            /\ CachedLookupDone(t)
                  => /\ Contains(MemberCache(op[t].member), MemberKey(op[t]))
                     /\ retID[t] = MemberCache(op[t].member)[MemberKey(op[t])])
    /\ [][\A t \in Threads :
            /\ LosesClassRace(t)
                 => /\ clazz'[t] = cachedClasses[op[t].bin]
                    /\ UNCHANGED <<cachedClasses, cachedMethodID, cachedFieldID,
                                   globalRefs, resolved, loaderCalls>>
            /\ LosesMemberRace(t)
                 => /\ retID'[t] = MemberCache(op[t].member)[MemberKey(op[t])]
                    /\ UNCHANGED <<cachedClasses, cachedMethodID, cachedFieldID,
                                   globalRefs, resolved, loaderCalls>>]_vars

\* Both threads looked the class a.B up while it was not cached: one has stored
\* and returned its handle, and the other, which missed at its first look, is
\* about to take the write lock and find the handle stored.
C23_Witness ==
    \E t \in Threads :
      \E u \in Threads \ {t} :
        /\ pc[t] \in {"lc_wlock", "fc_wlock"}
        /\ op[t].bin = ClsDot
        /\ LostRace(cachedClasses, ClsDot)
        /\ pc[u] = "done"
        /\ op[u].bin = ClsDot
        /\ clazz[u] # NullRef
        /\ clazz[u] = cachedClasses[ClsDot]

\* The QJniObjectPrivate i holds a class reference it created for itself.
OwnsClassRef(i) == privs[i].m_jclass # NullRef /\ privs[i].m_own_jclass

\* C24: both references of a binding are released exactly once on destruction.
\* The class reference a QJniObjectPrivate created for itself is live while a
\* wrapper shares the private and deleted exactly once when none does, with or
\* without an object; so is its object reference; and no two privates hold the
\* same reference of their own.
C24_OwnRefsReleasedOnce ==
    \A i \in DOMAIN privs :
        /\ OwnsClassRef(i)
             => /\ Deleted(privs[i].m_jclass) = IF Owners(i) = {} THEN 1 ELSE 0
                /\ \A j \in DOMAIN privs \ {i} :
                     privs[j].m_jclass # privs[i].m_jclass
        /\ privs[i].m_jobject # NullRef
             => /\ Deleted(privs[i].m_jobject) = IF Owners(i) = {} THEN 1 ELSE 0
                /\ \A j \in DOMAIN privs \ {i} :
                     privs[j].m_jobject # privs[i].m_jobject

\* A wrapper was constructed from a class handle with a constructor signature
\* the class does not have, so that it holds a class reference and no object,
\* and it has been destroyed.
C24_Witness ==
    /\ last.funnel = "~QJniObject"
    /\ \E i \in DOMAIN privs :
          /\ Owners(i) = {}
          /\ OwnsClassRef(i)
          /\ privs[i].m_jobject = NullRef
          /\ globalRefs[privs[i].m_jclass].obj = ClassObj(ClsDot)
          /\ Deleted(privs[i].m_jclass) = 1

\* Thread t has returned from findClass.
FindClassDone(t) == pc[t] = "done" /\ op[t].api = "findClass"

\* Thread t runs findClass and takes the step after its first look, or the step
\* that calls FindClass.
FindClassMisses(t) ==
    /\ op[t].api = "findClass"
    /\ op[t].stage = "fc"
    /\ pc[t] = "gcc_find"
    /\ StepBy(t)
    /\ ~Contains(cachedClasses, op[t].bin)
FindClassResolves(t) ==
    /\ op[t].api = "findClass"
    /\ pc[t] = "fc_find"
    /\ StepBy(t)

\* C25: findClass returns a cached handle when one exists. Otherwise, with an
\* environment, it calls FindClass under the write lock and caches and returns a
\* result that is not null; without an environment, or when FindClass fails, it
\* caches nothing itself and goes on with loadClass, whose result it returns. It
\* returns a class handle exactly when one of the two resolutions gave one: the
\* handle it returns is the cached handle of the class, and it returns null only
\* for a cached null or when loadClass found no class loader.
C25_FindClassFallsBack ==
    /\ [](\A t \in Threads :
            FindClassDone(t)
              => IF clazz[t] # NullRef
                   THEN /\ Contains(cachedClasses, op[t].bin)
                        /\ cachedClasses[op[t].bin] = clazz[t]
                        /\ JavaClassOf(clazz[t]) = op[t].bin
                        /\ op[t].bin \in JavaClasses
                   ELSE \/ op[t].stage = "lc_noloader"
                        \/ /\ Contains(cachedClasses, op[t].bin)
                           /\ cachedClasses[op[t].bin] = NullRef)
    /\ [][\A t \in Threads :
            /\ (pc[t] = "gcc_find" /\ StepBy(t) /\ op[t].api = "findClass"
                  /\ Contains(cachedClasses, op[t].bin))
                 => /\ pc'[t] = "done"
                    /\ clazz'[t] = cachedClasses[op[t].bin]
            /\ FindClassMisses(t)
                 => /\ UNCHANGED <<cachedClasses, globalRefs>>
                    /\ IF op[t].env
                         THEN pc'[t] = "fc_wlock"
                         ELSE pc'[t] = "gcc_lock" /\ op'[t].stage = "lc"
            /\ FindClassResolves(t)
                 => /\ cachedClassesLock.writer = t
                    /\ IF Len(globalRefs') > Len(globalRefs)
                         THEN /\ pc'[t] = "done"
                              /\ clazz'[t] = Len(globalRefs')
                              /\ cachedClasses' =
                                   Insert(cachedClasses, op[t].bin, clazz'[t])
                         ELSE /\ cachedClasses' = cachedClasses
                              /\ pc'[t] = "gcc_lock"
                              /\ op'[t].stage = "lc"]_vars

\* findClass was given an environment and the class name written with dots:
\* FindClass failed, and findClass returned the handle loadClass got from the
\* class loader.
C25_Witness ==
    \E t \in Threads :
        /\ FindClassDone(t)
        /\ op[t].env
        /\ op[t].cls = ClsDot
        /\ op[t].stage = "lc"
        /\ clazz[t] # NullRef
        /\ CopiesIn(ClsDot, loaderCalls) = 1

\* The locks thread t holds, and whether it is about to acquire a lock.
HoldsLock(lock, t) == t \in lock.readers \/ lock.writer = t
LocksHeld(t) ==
    {l \in {"classes", "methods", "fields"} :
        HoldsLock(CASE l = "classes" -> cachedClassesLock
                    [] l = "methods" -> cachedMethodIDLock
                    [] l = "fields" -> cachedFieldIDLock, t)}
Acquires(t) ==
    pc[t] \in {"gcc_lock", "lc_wlock", "fc_wlock", "mem_rlock", "mem_wlock"}
InLookup(t) == pc[t] \notin {"idle", "done"}

\* C26: no thread blocks forever on a cache lock. A thread that holds a cache
\* lock is never about to acquire a cache lock (the same one or another), a
\* thread outside a lookup holds none, and a lookup a thread has started
\* completes.
C26_LookupsComplete ==
    /\ [](\A t \in Threads :
            /\ Acquires(t) => LocksHeld(t) = {}
            /\ ~InLookup(t) => LocksHeld(t) = {}
            /\ Cardinality(LocksHeld(t)) <= 1)
    /\ \A t \in Threads : InLookup(t) ~> pc[t] = "done"

\* One thread holds the write lock of the class cache while the other waits to
\* take it.
C26_Witness ==
    \E t \in Threads :
      \E u \in Threads \ {t} :
        /\ cachedClassesLock.writer = t
        /\ pc[u] \in {"lc_wlock", "fc_wlock"}
        /\ ~ENABLED Advance(u)

\* ------------------------------------------------ the key of a member cache

\* The class names and member names of the keyed lookups.
KeyClassNames == {ClsDot, ClsDotM}
KeyMemberNames == {NameM, NameS, NameMS}

\* A static member lookup through a cache, as callStaticMethod and
\* getStaticField make it once loadClass has returned the class:
\* getCachedMethodID / getCachedFieldID(env, clazz, className, name, signature,
\* true).
KeyedLookup ==
    /\ MayCall
    /\ \E kind \in {"method", "field"}, className \in KeyClassNames,
          name \in KeyMemberNames :
         \E r \in {CachedID(Env, kind, className, className, name, SigI, TRUE)} :
           /\ SetEnv(r.env)
           /\ last' = [funnel |-> "lookup", kind |-> kind,
                       className |-> className, name |-> name, sig |-> SigI,
                       key |-> keyBase(className, name, SigI), id |-> r.id]
    /\ nOps' = nOps + 1
    /\ UNCHANGED <<d, cachedClassesLock, cachedMethodIDLock, cachedFieldIDLock,
                   classLoaderSet, threadVars, resolved, loaderCalls,
                   glVars>>

NextKey == KeyedLookup

SpecKey == InitJni /\ [][NextKey]_vars

\* C27: the member-cache key is injective, so that lookups with different
\* (class name, member name, signature) triples never use the same cache entry:
\* a lookup returns the handle of the member it asked for, in the class it
\* asked in, never a handle resolved for another class or member, and
\* not-found only for a member that does not exist.
C27_KeyInjective ==
    last.funnel = "lookup"
         => IF [cls |-> last.className, name |-> last.name, sig |-> last.sig,
                static |-> TRUE] \in JavaMembers
              THEN /\ last.id.cls = last.className
                   /\ last.id.name = last.name
              ELSE last.id = NullID

\* Two lookups of different members had different keys, and each found its own
\* handle in the cache.
C27_Witness ==
    /\ last.funnel = "lookup"
    /\ last.id # NullID
    /\ last.id.cls = last.className
    /\ last.id.name = last.name
    /\ \E k \in DOMAIN cachedMethodID :
          k # last.key /\ cachedMethodID[k] # NullID
    /\ Contains(cachedMethodID, last.key)

\* The class name has a '/' separator.
HasSlash(className) == \E i \in 1..Len(className) : className[i] = "/"

\* Thread t has finished a class lookup that reached the class cache.
ClassLookupCached(t) == ClassLookupDone(t) /\ op[t].stage # "lc_noloader"

StaticFieldDone(t) ==
    /\ CachedLookupDone(t)
    /\ op[t].member = "field"
    /\ op[t].static

\* The threads t and u ran static-field operations on the same class, field name
\* and signature.
SameStaticField(t, u) ==
    /\ StaticFieldDone(t)
    /\ StaticFieldDone(u)
    /\ op[t].bin = op[u].bin
    /\ op[t].name = op[u].name
    /\ op[t].sig = op[u].sig

\* C29: all static-field operations on the same class, field name and signature
\* use the same field-cache key, so that a setStaticField and a getStaticField
\* of one field resolve the field ID once and use one cache entry, however the
\* class name is written.
C29_OneStaticFieldKey ==
    \A t \in Threads :
      \A u \in Threads \ {t} :
        SameStaticField(t, u)
          => /\ MemberKey(op[t]) = MemberKey(op[u])
             /\ ResolutionsOfMember("field", JavaClassOf(clazz[t]), op[t].name,
                                    op[t].sig) <= 1

\* A setStaticField and a getStaticField of the field s of a.B, the class
\* written "a.B" in both, used one key and resolved the field once.
C29_Witness ==
    \E t \in Threads :
      \E u \in Threads \ {t} :
        /\ SameStaticField(t, u)
        /\ op[t].api = "setStaticField"
        /\ op[u].api = "getStaticField"
        /\ op[t].cls = ClsDot
        /\ op[u].cls = ClsDot
        /\ MemberKey(op[t]) = MemberKey(op[u])
        /\ retID[t] # NullID
        /\ retID[t] = retID[u]
        /\ ResolutionsOfMember("field", ClsDot, op[t].name, op[t].sig) = 1

\* Thread t is inside a member lookup made with an empty class name.
EmptyNameLookup(t) ==
    /\ InLookup(t)
    /\ op[t].member # "none"
    /\ isEmpty(op[t].className)

\* Thread t has finished a member lookup made with an empty class name.
EmptyNameDone(t) ==
    /\ pc[t] = "done"
    /\ op[t].member # "none"
    /\ isEmpty(op[t].className)

\* C30: a member lookup made with an empty class name bypasses the caches. Its
\* one step calls the resolution routine, on every call, returns what the
\* routine answers and leaves the method-ID and the field-ID cache unchanged;
\* no entry of a cache is keyed without a class name.
C30_EmptyNameBypasses ==
    /\ [](\A t \in Threads :
            EmptyNameDone(t)
              => /\ ~Contains(cachedMethodID, MemberKey(op[t]))
                 /\ ~Contains(cachedFieldID, MemberKey(op[t])))
    /\ [][\A t \in Threads :
            (EmptyNameLookup(t) /\ StepBy(t))
              => /\ UNCHANGED <<cachedMethodID, cachedFieldID>>
                 /\ resolved' = resolved (+) SetToBag({Resolution(t, NullName)})
                 /\ retID'[t] = ResolveMember(t)
                 /\ pc'[t] = "done"]_vars

\* Two lookups of one member with an empty class name have finished, one on a
\* wrapper of an object reference and one given the class handle or both on
\* wrappers: the member was resolved twice and the member caches are empty.
C30_Witness ==
    \E t \in Threads :
      \E u \in Threads \ {t} :
        /\ EmptyNameDone(t)
        /\ EmptyNameDone(u)
        /\ op[t].api = "callMethod"
        /\ op[u].member = "method"
        /\ op[u].name = op[t].name
        /\ retID[t] # NullID
        /\ ResolutionsOfKey("method", NullName) = 2
        /\ cachedMethodID = <<>>
        /\ cachedFieldID = <<>>

\* The funnels of the operations on the object of a wrapper.
InstanceFunnels == {a.funnel : a \in InstanceOps}

\* The last operation assigned to the wrapper w, constructed by class name, an
\* object of another class than the one it was constructed for.
Reassigned(w) ==
    /\ last.funnel = "assign"
    /\ last.w = w
    /\ last.ref # NullRef
    /\ ClassOfObject(JavaObject(last.ref)) # ClsDot

\* C31: once a wrapper constructed by class name is re-assigned to an object of
\* another class, it records no class name and its class handle names the
\* class of the new object; a member lookup on it is resolved in that class
\* (which has none of the members of the first) and leaves the class cache and
\* both member caches, entries keyed by the first class name included, as they
\* were.
C31_ReassignClearsClassName ==
    /\ [](\A w \in Wrappers :
            Reassigned(w)
              => /\ isValid(w)
                 /\ isNull(Priv(w).m_className)
                 /\ ClassAt(Env, Priv(w).m_jclass)
                       = ClassOfObject(JavaObject(last.ref)))
    /\ [][\A w \in Wrappers :
            (/\ Reassigned(w)
             /\ nOps' = nOps + 1
             /\ last'.funnel \in InstanceFunnels)
              => /\ UNCHANGED <<cachedClasses, cachedMethodID, cachedFieldID>>
                 /\ ~last'.found]_vars

\* The wrapper w1 was constructed for the class a.B, whose constructor is in the
\* method cache under that name, then assigned an object of another class, and
\* a member was looked up on it: the wrapper records no class name and the lookup found
\* nothing.
C31_Witness ==
    /\ nOps = 2
    /\ last.funnel \in InstanceFunnels
    /\ ~last.found
    /\ isValid("w1")
    /\ isNull(Priv("w1").m_className)
    /\ ClassAt(Env, Priv("w1").m_jclass) = OtherObject[2]
    /\ \E sig \in CtorSigs : Contains(cachedMethodID, keyBase(ClsDot, NameInit, sig))
    /\ cachedFieldID = <<>>

\* The wrapper w holds a class handle.
HoldsClass(w) == d[w] # NoPriv /\ Priv(w).m_jclass # NullRef

\* C32: a valid wrapper, one whose object reference is not null, also holds a
\* class handle that is not null and names the class of its object. The
\* converse is not claimed: a wrapper may hold a class handle and no object.
C32_ValidHoldsClass ==
    \A w \in Wrappers :
        isValid(w)
          => /\ HoldsClass(w)
             /\ ClassAt(Env, Priv(w).m_jclass)
                   = ClassOfObject(JavaObject(Priv(w).m_jobject))

\* One wrapper is valid and holds the handle of its object's class; another,
\* whose constructor was not found or threw after the class was resolved, holds
\* the class handle with no object.
C32_Witness ==
    \E w \in Wrappers :
      \E v \in Wrappers \ {w} :
        /\ isValid(w)
        /\ HoldsClass(w)
        /\ HoldsClass(v)
        /\ ~isValid(v)
        /\ Priv(v).m_className = ClsDot

\* C33: a platform OpenGL context that does not override them reports isValid()
\* true and isSharing() false in every state, whatever makeCurrent, doneCurrent
\* and swapBuffers calls were made; and no such call changes the state the
\* interface itself holds, the context in its d_ptr.
C33_DefaultsAreConstant ==
    /\ [](/\ QPlatformOpenGLContext_isValid(platformContext)
          /\ ~isSharing(platformContext))
    /\ [][platformContext'.context = platformContext.context]_vars

\* The context, set for a QOpenGLContext, was made current on the window and
\* two frames were swapped.
C33_Witness ==
    /\ platformContext.frames = 2
    /\ platformContext.current = "window"
    /\ platformContext.made
    /\ platformContext.context # NoContext

====
